---- MODULE Spec2Model ----
(***************************************************************************)
(* A model of pycroscopy/analysis/be_loop_model.py (class BELoopModel):    *)
(* the chunk planner, the chunk cursor of do_guess and do_fit, the N-D     *)
(* reshape pair, and the cluster-tree guess cascade.                       *)
(*                                                                         *)
(* Three specifications share the variables:                               *)
(*   Spec         the model object driven by do_guess / do_fit calls       *)
(*   SpecReshape  _reshape_sho_matrix / _reshape_projected_loops_for_h5    *)
(*   SpecCascade  _guess_loops and its recursive _loop_fit_tree            *)
(* Each Init parks the variables of the other two at fixed values.         *)
(***************************************************************************)
EXTENDS Integers, Sequences, FiniteSets, TLC

(***************************************************************************)
(* Bounds of the model.                                                    *)
(***************************************************************************)
\* positions (pixels) of the dataset: h5_main.shape[0] ranges over 1..MaxPixels
MaxPixels == 2
\* cardinality of the FORC axis: 1..MaxForcs when it is the only other axis, else MaxForcs
MaxForcs == 2
\* cardinality of the FORC_repeat axis
MaxRepeats == 2
\* cardinality of the DC_Offset axis in the driver's datasets
NumDcSteps == 2
\* cardinality of the one free axis ("Field") in the driver's datasets
NumFields == 2
\* max_mem arguments range over None and 1..MaxMemArg (in MB)
MaxMemArg == 3

(***************************************************************************)
(* Quantities of the environment the class reads.                          *)
(***************************************************************************)
\* Model._maxMemoryMB and Model._maxCpus, read at lines 208-209 and 320-327
MaxMemoryMB == 2
MaxCpus == 2
\* len(h5_main.dtype) * h5_main.dtype[0].itemsize, line 553: bytes of one record
RecordBytes == 131072
\* 1024 ** 2, line 559
MB == 1048576
\* mem_overhead = 3.5 (line 558) as the fraction OverheadNum / OverheadDen
OverheadNum == 7
OverheadDen == 2

\* Python's None for a max_mem argument
MemNone == 0 - 1
\* Python's None for self.data / self.guess, and slice(None) for a column slice
NoData == [table |-> "None", r0 |-> 0, r1 |-> 0, c0 |-> 0, c1 |-> 0]
SliceNone == [start |-> 0 - 1, stop |-> 0 - 1]
IsNone(d) == d.table = "None"

Min(a, b) == IF a <= b THEN a ELSE b
Max(a, b) == IF a >= b THEN a ELSE b

RECURSIVE SeqProduct(_)
SeqProduct(s) == IF s = <<>> THEN 1 ELSE Head(s) * SeqProduct(Tail(s))

\* the image of a sequence
Range(s) == {s[i] : i \in 1..Len(s)}

\* np.argwhere(labels == name)[0][0], as a 0-based index (name is in labels)
IndexOf(labels, name) == (CHOOSE i \in 1..Len(labels) : labels[i] = name) - 1

\* list.remove(x) on a list of distinct indices
ListRemove(lst, x) == SelectSeq(lst, LAMBDA y : y # x)

(***************************************************************************)
(* The spectroscopic table of a dataset: the ordered axis labels (the      *)
(* 'labels' attribute of Spectroscopic_Indices) and the cardinality of     *)
(* each axis (np.unique(spec_inds[row]).size).  Axis rows are 0-based in   *)
(* the code; dims[i + 1] is the cardinality of row i.                      *)
(***************************************************************************)
SpecTables ==
    {[labels |-> <<"DC_Offset">>, dims |-> <<NumDcSteps>>]}
    \cup {[labels |-> <<"DC_Offset", "Field">>, dims |-> <<NumDcSteps, NumFields>>]}
    \cup {[labels |-> <<"DC_Offset", "FORC">>, dims |-> <<NumDcSteps, f>>] :
             f \in 1..MaxForcs}
    \cup {[labels |-> <<"DC_Offset", "Field", "FORC">>,
           dims |-> <<NumDcSteps, NumFields, MaxForcs>>]}
    \cup {[labels |-> <<"DC_Offset", "FORC", "FORC_repeat">>,
           dims |-> <<NumDcSteps, MaxForcs, MaxRepeats>>]}

VARIABLES
    \* ---- the dataset (immutable input) ----
    dataset,        \* [labels, dims, num_pixels]: h5_main and its spectroscopic table
    \* ---- fields of the BELoopModel object ----
    start_pos,      \* self._start_pos
    end_pos,        \* self._end_pos
    current_forc,   \* self._current_forc
    num_forcs,      \* self._num_forcs
    num_forc_repeats, \* self._num_forc_repeats
    max_pos,        \* self.max_pos (0 until the planner has run)
    inds_per_forc,  \* [sho, met]: self.sho_spec_inds_per_forc, self.metrics_spec_inds_per_forc
    all_but_forc,   \* self._sho_all_but_forc_inds
    sho_slice,      \* self._current_sho_spec_slice as [start, stop]
    met_slice,      \* self._current_met_spec_slice as [start, stop]
    dc_vec,         \* self.dc_vec, named by the column slice it was extracted from
    data,           \* self.data: None or the rectangle read
    guess,          \* self.guess: None or the rectangle of h5_guess read
    maxDataChunk,   \* self._maxDataChunk
    h5_projected_loops, \* the Projected_Loops table: [created, writes]
    h5_loop_metrics,    \* the Loop_Metrics table
    h5_guess,           \* the Guess table (created = FALSE: self.h5_guess is None)
    h5_fit,             \* the Fit table
    h5_parameters,  \* tables extract_loop_parameters has been run on
    \* ---- position of the running call, and its local variables ----
    pc,             \* "idle", "guess_loop", "fit_loop", "returned"
    outcome,        \* how the call that has just returned ended
    call,           \* locals of the running call and the record of its chunks
    \* ---- the reshape pair (SpecReshape) ----
    rs,
    \* ---- the guess cascade (SpecCascade) ----
    gc

objvars == <<start_pos, end_pos, current_forc, num_forcs, num_forc_repeats, max_pos,
             inds_per_forc, all_but_forc, sho_slice, met_slice, dc_vec, data, guess,
             maxDataChunk>>
tabvars == <<h5_projected_loops, h5_loop_metrics, h5_guess, h5_fit, h5_parameters>>
drivervars == <<dataset, objvars, tabvars, pc, outcome, call>>
vars == <<drivervars, rs, gc>>

(***************************************************************************)
(* _get_sho_chunk_sizes (lines 506-581), as a function of the dataset, the *)
(* budget max_mem_mb and the object's fields _num_forcs/_num_forc_repeats  *)
(* (which it overwrites only when it finds the axes).                      *)
(***************************************************************************)
\* self._dc_spec_index (lines 450-454, 163-165)
DcSpecIndex(ds) == IndexOf(ds.labels, "DC_Offset")

\* has_forcs, forc_name, forc_pos (lines 533-537)
HasForcs(ds) == "FORC" \in Range(ds.labels) \/ "FORC_Cycle" \in Range(ds.labels)
ForcName(ds) == IF "FORC" \in Range(ds.labels) THEN "FORC" ELSE "FORC_Cycle"
ForcPos(ds) == IndexOf(ds.labels, ForcName(ds))

\* has_forc_repeats: looked for only inside `if has_forcs` (lines 535-546)
HasForcRepeats(ds) == HasForcs(ds) /\ "FORC_repeat" \in Range(ds.labels)
ForcRepeatPos(ds) == IndexOf(ds.labels, "FORC_repeat")

\* self._num_forcs, self._num_forc_repeats after lines 535-546
PlannedNumForcs(ds, nf) == IF HasForcs(ds) THEN ds.dims[ForcPos(ds) + 1] ELSE nf
PlannedNumRepeats(ds, nr) ==
    IF HasForcRepeats(ds) THEN ds.dims[ForcRepeatPos(ds) + 1] ELSE nr

\* all_spec_dims after the removals of lines 529-546
AllSpecDims(ds) ==
    LET all == [i \in 1..Len(ds.labels) |-> i - 1]
        a1 == ListRemove(all, DcSpecIndex(ds))
        a2 == IF HasForcs(ds) THEN ListRemove(a1, ForcPos(ds)) ELSE a1
    IN  IF HasForcRepeats(ds) THEN ListRemove(a2, ForcRepeatPos(ds)) ELSE a2

\* loops_per_forc = np.product(get_dimensionality(spec_inds, all_spec_dims)) (549-550)
LoopsPerForc(ds) ==
    SeqProduct([k \in 1..Len(AllSpecDims(ds)) |-> ds.dims[AllSpecDims(ds)[k] + 1]])

\* size_per_forc (line 553)
SizePerForc(ds) == ds.dims[DcSpecIndex(ds) + 1] * LoopsPerForc(ds) * RecordBytes

\* a mutant of ComputedMaxPos: the overhead factor left out of the division
ComputedMaxPosNoOverhead(size_per_forc, max_mem_mb) == (max_mem_mb * MB) \div size_per_forc

\* max_pos = int(max_mem_mb * 1024 ** 2 / (size_per_forc * mem_overhead)) (line 559);
\* the quotient is non-negative, so int() is the floor
ComputedMaxPos(size_per_forc, max_mem_mb) ==
    (max_mem_mb * MB * OverheadDen) \div (size_per_forc * OverheadNum)

\* self.max_pos = int(min(self._sho_pos_inds.shape[0], max_pos)) (line 564)
PlannedMaxPos(ds, max_mem_mb) ==
    Min(ds.num_pixels, ComputedMaxPos(SizePerForc(ds), max_mem_mb))

\* columns of the SHO table (self._sho_spec_inds.shape[1]) and of the metrics table
\* (self._met_spec_inds.shape[1] = tot_cycles, one per column with DC index 0, 457-465)
ShoColumns(ds) == SeqProduct(ds.dims)
MetColumns(ds) == SeqProduct(ds.dims) \div ds.dims[DcSpecIndex(ds) + 1]

\* sho_spec_inds_per_forc, metrics_spec_inds_per_forc (lines 565-566)
IndsPerForc(cols, nf, nr) == (cols \div nf) \div nr

\* self._sho_all_but_forc_inds (lines 569-577)
ShoAllButForcInds(ds, nf, nr) ==
    LET all == [i \in 1..Len(ds.labels) |-> i - 1]
        a1 == IF nf > 1 THEN ListRemove(all, ForcPos(ds)) ELSE all
    IN  IF nf > 1 /\ nr > 1 THEN ListRemove(a1, ForcRepeatPos(ds)) ELSE a1

GetShoChunkSizes(ds, nf, nr, max_mem_mb) ==
    LET nf2 == PlannedNumForcs(ds, nf)
        nr2 == PlannedNumRepeats(ds, nr)
    IN  [num_forcs |-> nf2,
         num_forc_repeats |-> nr2,
         max_pos |-> PlannedMaxPos(ds, max_mem_mb),
         inds_per_forc |-> [sho |-> IndsPerForc(ShoColumns(ds), nf2, nr2),
                            met |-> IndsPerForc(MetColumns(ds), nf2, nr2)],
         all_but_forc |-> ShoAllButForcInds(ds, nf2, nr2)]

(***************************************************************************)
(* The chunk cursor.                                                       *)
(***************************************************************************)
\* a mutant of ForcSlice: the slice of the first outer-cycle, whatever the cycle
ForcSliceOfFirstCycle(per_forc, cf) == [start |-> 0, stop |-> per_forc]

\* slice(per_forc * current_forc, per_forc * (current_forc + 1))
ForcSlice(per_forc, cf) == [start |-> per_forc * cf, stop |-> per_forc * (cf + 1)]

\* table[r0:r1, slice]: the rectangle read, named by its table and bounds
Rect(table, r0, r1, slice) ==
    [table |-> table, r0 |-> r0, r1 |-> r1, c0 |-> slice.start, c1 |-> slice.stop]

\* self._end_pos = int(min(self.h5_main.shape[0], self._start_pos + self.max_pos))
\* (lines 895, 908, 928, 941)
ChunkEnd(npix, sp, mp) == Min(npix, sp + mp)

\* the test of the first branch: self._start_pos < self.max_pos (lines 892, 925)
MorePositions(sp, mp, npix) == sp < mp

\* _get_data_chunk (lines 883-914) and the cursor part of _get_guess_chunk (916-945):
\* the fields after the call, from the fields before it.  `table` is the table read.
NextChunk(table, ds, sp, ep, cf, ss, ms, dv, mp, nf, ipf) ==
    IF MorePositions(sp, mp, ds.num_pixels)
    THEN LET ss2 == ForcSlice(ipf.sho, cf)
             ep2 == ChunkEnd(ds.num_pixels, sp, mp)
         IN  [start_pos |-> sp, end_pos |-> ep2, current_forc |-> cf,
              sho_slice |-> ss2, met_slice |-> ms, dc_vec |-> dv,
              data |-> Rect(table, sp, ep2, ss2)]
    ELSE IF cf < nf - 1
    THEN LET cf2 == cf + 1
             ss2 == ForcSlice(ipf.sho, cf2)
             ms2 == ForcSlice(ipf.met, cf2)
             ep2 == ChunkEnd(ds.num_pixels, 0, mp)
         IN  [start_pos |-> 0, end_pos |-> ep2, current_forc |-> cf2,
              sho_slice |-> ss2, met_slice |-> ms2,
              dc_vec |-> ss2,      \* _get_dc_offset reads the new SHO slice
              data |-> Rect(table, 0, ep2, ss2)]
    ELSE [start_pos |-> sp, end_pos |-> ep, current_forc |-> cf,
          sho_slice |-> ss, met_slice |-> ms, dc_vec |-> dv, data |-> NoData]

\* self.guess after _get_guess_chunk (lines 947-949), from the fields it leaves
GuessChunk(nc) == Rect("Guess", nc.start_pos, nc.end_pos, nc.met_slice)

\* a chunk of zero positions
IsEmptyChunk(d) == ~IsNone(d) /\ d.r0 >= d.r1

(***************************************************************************)
(* Tables of the HDF5 file.  A table is [created, writes]; writes is the   *)
(* sequence of rectangles assigned so far, each with the rectangle of the  *)
(* input the values were computed from (src).                              *)
(***************************************************************************)
NoTable == [created |-> FALSE, writes |-> <<>>]
EmptyTable == [created |-> TRUE, writes |-> <<>>]
WriteRect(r0, r1, slice, src) ==
    [r0 |-> r0, r1 |-> r1, c0 |-> slice.start, c1 |-> slice.stop, src |-> src]
TableWrite(t, r0, r1, slice, src) ==
    [t EXCEPT !.writes = Append(@, WriteRect(r0, r1, slice, src))]

\* the locals of a call of do_guess / do_fit, and the record of what it did
NoCall == [name |-> "none", budget |-> 0, planned |-> FALSE, get_loop_parameters |-> FALSE,
           loops_2d_shifted |-> NoData, vdc_shifted |-> SliceNone,
           results |-> <<>>, log |-> <<>>]
ReadEvent(d) == [ev |-> "read", table |-> d.table, forc_cols |-> d.c0, r0 |-> d.r0, r1 |-> d.r1]
WriteEvent(table, d) ==
    [ev |-> "write", table |-> table, forc_cols |-> d.c0, r0 |-> d.r0, r1 |-> d.r1]
LogRead(log, d) == IF IsNone(d) THEN log ELSE Append(log, ReadEvent(d))

MemArgs == {MemNone} \cup (1..MaxMemArg)

\* lines 205-209 and 323-327: the budget handed to the planner, and _maxDataChunk
Budget(max_mem, mdc) == IF max_mem = MemNone THEN mdc ELSE Min(max_mem, MaxMemoryMB)
NewMaxDataChunk(max_mem, mdc) ==
    IF max_mem = MemNone THEN mdc ELSE Min(max_mem, MaxMemoryMB) \div MaxCpus

(***************************************************************************)
(* BELoopModel.__init__ (lines 82-100); _start_pos, _end_pos, h5_guess,    *)
(* h5_fit, data, guess and _maxDataChunk are set by the base class Model.  *)
(***************************************************************************)
ObjInit ==
    /\ start_pos = 0
    /\ end_pos = dataset.num_pixels
    /\ current_forc = 0
    /\ num_forcs = 1
    /\ num_forc_repeats = 1
    /\ max_pos = 0
    /\ inds_per_forc = [sho |-> 0, met |-> 0]
    /\ all_but_forc = <<>>
    /\ sho_slice = SliceNone
    /\ met_slice = SliceNone
    /\ dc_vec = SliceNone
    /\ data = NoData
    /\ guess = NoData
    /\ maxDataChunk = MaxMemoryMB \div MaxCpus
    /\ h5_projected_loops = NoTable
    /\ h5_loop_metrics = NoTable
    /\ h5_guess = NoTable
    /\ h5_fit = NoTable
    /\ h5_parameters = {}

RsIdle == [phase |-> "off"]
GcIdle == [phase |-> "off"]

Init ==
    /\ dataset \in {[labels |-> t.labels, dims |-> t.dims, num_pixels |-> n] :
                       t \in SpecTables, n \in 1..MaxPixels}
    /\ ObjInit
    /\ pc = "idle"
    /\ outcome = "none"
    /\ call = NoCall
    /\ rs = RsIdle
    /\ gc = GcIdle

\* the assignment of the cursor fields from the result of NextChunk
SetCursor(nc) ==
    /\ start_pos' = nc.start_pos
    /\ end_pos' = nc.end_pos
    /\ current_forc' = nc.current_forc
    /\ sho_slice' = nc.sho_slice
    /\ met_slice' = nc.met_slice
    /\ dc_vec' = nc.dc_vec
    /\ data' = nc.data

SetPlan(pl) ==
    /\ num_forcs' = pl.num_forcs
    /\ num_forc_repeats' = pl.num_forc_repeats
    /\ max_pos' = pl.max_pos
    /\ inds_per_forc' = pl.inds_per_forc
    /\ all_but_forc' = pl.all_but_forc

(***************************************************************************)
(* do_guess (lines 177-278).                                               *)
(***************************************************************************)
\* lines 203-226: set up the tables, plan the chunks, read the first chunk
DoGuessStart(max_mem, get_loop_parameters) ==
    /\ pc = "idle"
    /\ LET budget == Budget(max_mem, maxDataChunk)
           pl == GetShoChunkSizes(dataset, num_forcs, num_forc_repeats, budget)
           ss == ForcSlice(pl.inds_per_forc.sho, current_forc)
           ms == ForcSlice(pl.inds_per_forc.met, current_forc)
           nc == NextChunk("h5_main", dataset, start_pos, end_pos, current_forc,
                           ss, ms, ss, pl.max_pos, pl.num_forcs, pl.inds_per_forc)
       IN  /\ maxDataChunk' = NewMaxDataChunk(max_mem, maxDataChunk)
           /\ SetPlan(pl)
           /\ SetCursor(nc)
           /\ call' = [NoCall EXCEPT !.name = "do_guess", !.budget = budget,
                                     !.planned = TRUE,
                                     !.get_loop_parameters = get_loop_parameters,
                                     !.log = LogRead(<<>>, nc.data)]
    /\ h5_projected_loops' = EmptyTable
    /\ h5_loop_metrics' = EmptyTable
    /\ h5_guess' = EmptyTable
    /\ h5_parameters' = h5_parameters \ {"Guess"}
    /\ pc' = "guess_loop"
    /\ UNCHANGED <<dataset, guess, h5_fit, outcome, rs, gc>>

\* a mutant of GuessPassLog: the next chunk is read before the tables are written
GuessPassLogReadFirst(log, d, next) ==
    LogRead(log, next) \o <<WriteEvent("Projected_Loops", d), WriteEvent("Loop_Metrics", d),
                            WriteEvent("Guess", d)>>

\* the order of the I/O of one pass: the three writes of lines 265-267, then the
\* read of the next chunk by _get_data_chunk at line 273
GuessPassLog(log, d, next) ==
    LogRead(log \o <<WriteEvent("Projected_Loops", d), WriteEvent("Loop_Metrics", d),
                     WriteEvent("Guess", d)>>, next)

\* one pass of the while loop (lines 231-273): reshape, project, guess, reshape back,
\* write the three tables, advance the cursor and read the next chunk
GuessChunkStep ==
    /\ pc = "guess_loop"
    /\ ~IsNone(data)
    /\ ~IsEmptyChunk(data)
    /\ h5_projected_loops' = TableWrite(h5_projected_loops, start_pos, end_pos, sho_slice, data)
    /\ h5_loop_metrics' = TableWrite(h5_loop_metrics, start_pos, end_pos, met_slice, data)
    /\ h5_guess' = TableWrite(h5_guess, start_pos, end_pos, met_slice, data)
    /\ LET nc == NextChunk("h5_main", dataset, end_pos, end_pos, current_forc,
                           sho_slice, met_slice, dc_vec, max_pos, num_forcs, inds_per_forc)
       IN  /\ SetCursor(nc)
           /\ call' = [call EXCEPT !.log = GuessPassLog(call.log, data, nc.data)]
    /\ UNCHANGED <<dataset, num_forcs, num_forc_repeats, max_pos, inds_per_forc,
                   all_but_forc, guess, maxDataChunk, h5_fit, h5_parameters, pc,
                   outcome, rs, gc>>

\* a chunk of zero positions cannot be reshaped, projected or clustered: the pass raises
GuessChunkRaises ==
    /\ pc = "guess_loop"
    /\ IsEmptyChunk(data)
    /\ pc' = "returned"
    /\ outcome' = "raised"
    /\ UNCHANGED <<dataset, objvars, tabvars, call, rs, gc>>

\* lines 275-278: the loop has ended
DoGuessReturn ==
    /\ pc = "guess_loop"
    /\ IsNone(data)
    /\ h5_parameters' = IF call.get_loop_parameters THEN h5_parameters \cup {"Guess"}
                        ELSE h5_parameters
    /\ pc' = "returned"
    /\ outcome' = "guess_done"
    /\ UNCHANGED <<dataset, objvars, h5_projected_loops, h5_loop_metrics, h5_guess,
                   h5_fit, call, rs, gc>>

(***************************************************************************)
(* do_fit (lines 280-409).                                                 *)
(***************************************************************************)
\* lines 332-336 with no guess: "You need to guess before fitting", return None.
\* The budget lines 323-327 have run by then.
DoFitRefused(max_mem) ==
    /\ pc = "idle"
    /\ ~h5_guess.created
    /\ maxDataChunk' = NewMaxDataChunk(max_mem, maxDataChunk)
    /\ pc' = "returned"
    /\ outcome' = "fit_refused"
    /\ call' = [NoCall EXCEPT !.name = "do_fit", !.budget = Budget(max_mem, maxDataChunk)]
    /\ UNCHANGED <<dataset, start_pos, end_pos, current_forc, num_forcs, num_forc_repeats,
                   max_pos, inds_per_forc, all_but_forc, sho_slice, met_slice, dc_vec,
                   data, guess, tabvars, rs, gc>>

\* the first chunk of do_fit: the cursor after lines 347-354
FirstFitChunk(pl) ==
    LET ss == ForcSlice(pl.inds_per_forc.sho, 0)
        ms == ForcSlice(pl.inds_per_forc.met, 0)
    IN  NextChunk("Projected_Loops", dataset, 0, end_pos, 0, ss, ms, ss,
                  pl.max_pos, pl.num_forcs, pl.inds_per_forc)

\* lines 319-371 of a call with h5_guess=None on an object that has a guess:
\* budget, _create_fit_dataset, planner, first chunk
FitSetup(max_mem) ==
    LET pl == GetShoChunkSizes(dataset, num_forcs, num_forc_repeats,
                               Budget(max_mem, maxDataChunk))
        nc == FirstFitChunk(pl)
    IN  /\ pc = "idle"
        /\ h5_guess.created
        /\ maxDataChunk' = NewMaxDataChunk(max_mem, maxDataChunk)
        /\ UNCHANGED <<h5_projected_loops, h5_loop_metrics, h5_guess>>
        /\ h5_fit' = EmptyTable
        /\ SetPlan(pl)
        /\ SetCursor(nc)
        /\ guess' = GuessChunk(nc)
        /\ UNCHANGED <<dataset, rs, gc>>

\* the locals of do_fit after line 376
FitCall(max_mem, get_loop_parameters, nc) ==
    [NoCall EXCEPT !.name = "do_fit", !.budget = Budget(max_mem, maxDataChunk),
                   !.planned = TRUE,
                   !.get_loop_parameters = get_loop_parameters,
                   !.loops_2d_shifted = nc.data, !.vdc_shifted = nc.dc_vec,
                   !.log = LogRead(<<>>, nc.data)]

FirstChunkOf(max_mem) ==
    FirstFitChunk(GetShoChunkSizes(dataset, num_forcs, num_forc_repeats,
                                   Budget(max_mem, maxDataChunk)))

\* lines 356-371 on a first chunk that is None or has no positions: the reshape raises
DoFitRaises(max_mem) ==
    /\ FitSetup(max_mem)
    /\ IsNone(FirstChunkOf(max_mem).data) \/ IsEmptyChunk(FirstChunkOf(max_mem).data)
    /\ h5_parameters' = h5_parameters \ {"Fit"}
    /\ call' = [NoCall EXCEPT !.name = "do_fit", !.budget = Budget(max_mem, maxDataChunk),
                              !.planned = TRUE]
    /\ pc' = "returned"
    /\ outcome' = "raised"

FirstChunkUsable(max_mem) ==
    ~IsNone(FirstChunkOf(max_mem).data) /\ ~IsEmptyChunk(FirstChunkOf(max_mem).data)

\* lines 376-381: solver and objective function both known: enter the while loop
DoFitStart(max_mem, get_loop_parameters) ==
    /\ FitSetup(max_mem)
    /\ FirstChunkUsable(max_mem)
    /\ h5_parameters' = h5_parameters \ {"Fit"}
    /\ call' = FitCall(max_mem, get_loop_parameters, FirstChunkOf(max_mem))
    /\ pc' = "fit_loop"
    /\ UNCHANGED outcome

\* lines 398-404: exactly one of solver and objective function is unknown: return None
DoFitOneUnknown(max_mem) ==
    /\ FitSetup(max_mem)
    /\ FirstChunkUsable(max_mem)
    /\ h5_parameters' = h5_parameters \ {"Fit"}
    /\ call' = FitCall(max_mem, FALSE, FirstChunkOf(max_mem))
    /\ pc' = "returned"
    /\ outcome' = "fit_none"

\* neither is known: no branch of lines 379-404 is taken, control reaches lines 406-409
DoFitBothUnknown(max_mem, get_loop_parameters) ==
    /\ FitSetup(max_mem)
    /\ FirstChunkUsable(max_mem)
    /\ h5_parameters' = IF get_loop_parameters THEN h5_parameters \cup {"Fit"}
                        ELSE h5_parameters \ {"Fit"}
    /\ call' = FitCall(max_mem, get_loop_parameters, FirstChunkOf(max_mem))
    /\ pc' = "returned"
    /\ outcome' = "fit_unfitted"

\* line 383-385: what LoopOptimize / computeFit is handed in one pass: the locals
\* loops_2d_shifted and vdc_shifted (computed once, lines 370-371) and self.guess
FitInputs(c, d, g, dv) ==
    [loops |-> c.loops_2d_shifted, guess |-> g, vdc |-> c.vdc_shifted, chunk |-> d]

\* one pass of the while loop (lines 382-393)
FitChunkStep ==
    /\ pc = "fit_loop"
    /\ ~IsNone(data)
    /\ LET nc == NextChunk("Projected_Loops", dataset, end_pos, end_pos, current_forc,
                           sho_slice, met_slice, dc_vec, max_pos, num_forcs, inds_per_forc)
       IN  /\ SetCursor(nc)
           /\ guess' = GuessChunk(nc)
           /\ call' = [call EXCEPT
                         !.results = Append(@, FitInputs(call, data, guess, dc_vec)),
                         !.log = LogRead(Append(@, [ev |-> "fitted", table |-> "results",
                                                    forc_cols |-> data.c0,
                                                    r0 |-> data.r0, r1 |-> data.r1]),
                                         nc.data)]
    /\ UNCHANGED <<dataset, num_forcs, num_forc_repeats, max_pos, inds_per_forc,
                   all_but_forc, maxDataChunk, tabvars, pc, outcome, rs, gc>>

\* self.fit = np.hstack(tuple(results)): result i in columns [(i-1) w, i w)
HStack(results, w) ==
    [i \in 1..Len(results) |->
        WriteRect(0, results[i].loops.r1 - results[i].loops.r0,
                  [start |-> (i - 1) * w, stop |-> i * w], results[i].chunk)]

\* lines 395-396 and 406-409: the loop has ended; stack the results, store them
DoFitFinish ==
    /\ pc = "fit_loop"
    /\ IsNone(data)
    /\ h5_fit' = [created |-> TRUE, writes |-> HStack(call.results, inds_per_forc.met)]
    /\ h5_parameters' = IF call.get_loop_parameters THEN h5_parameters \cup {"Fit"}
                        ELSE h5_parameters
    /\ call' = [call EXCEPT !.log = @ \o [i \in 1..Len(call.results) |->
                                            WriteEvent("Fit", call.results[i].chunk)]]
    /\ pc' = "returned"
    /\ outcome' = "fit_done"
    /\ UNCHANGED <<dataset, objvars, h5_projected_loops, h5_loop_metrics, h5_guess, rs, gc>>

\* the call has returned (or raised) to its caller; the object stays as the call left it
CallerResumes ==
    /\ pc = "returned"
    /\ pc' = "idle"
    /\ outcome' = "none"
    /\ call' = NoCall
    /\ UNCHANGED <<dataset, objvars, tabvars, rs, gc>>

Next ==
    \/ \E m \in MemArgs, g \in BOOLEAN : DoGuessStart(m, g)
    \/ GuessChunkStep
    \/ GuessChunkRaises
    \/ DoGuessReturn
    \/ \E m \in MemArgs : DoFitRefused(m)
    \/ \E m \in MemArgs : DoFitRaises(m)
    \/ \E m \in MemArgs, g \in BOOLEAN : DoFitStart(m, g)
    \/ \E m \in MemArgs : DoFitOneUnknown(m)
    \/ \E m \in MemArgs, g \in BOOLEAN : DoFitBothUnknown(m, g)
    \/ FitChunkStep
    \/ DoFitFinish
    \/ CallerResumes

Spec == Init /\ [][Next]_vars

(***************************************************************************)
(* Properties of the chunk planner and of the chunk loops (Spec).          *)
(***************************************************************************)
\* the writes of table t that cover position p, column c
Covering(t, p, c) ==
    {i \in 1..Len(t.writes) : /\ t.writes[i].r0 <= p /\ p < t.writes[i].r1
                              /\ t.writes[i].c0 <= c /\ c < t.writes[i].c1}
\* the chunks read in the call that hold position p of outer-cycle f
ChunksHolding(log, p, f) ==
    {i \in 1..Len(log) : /\ log[i].ev = "read"
                         /\ log[i].forc_cols = ForcSlice(inds_per_forc.sho, f).start
                         /\ log[i].r0 <= p /\ p < log[i].r1}
SliceColumns(sl) == sl.start..(sl.stop - 1)
CoveredOnce(t, p, sl) == \A c \in SliceColumns(sl) : Cardinality(Covering(t, p, c)) = 1

\* C1: after do_guess returns, with max_pos >= 1, every position of every outer-cycle
\* was held by exactly one chunk, and Projected_Loops, Loop_Metrics and Guess each
\* hold exactly one written record for it.
C1_GuessCoversEveryPixelOnce ==
    (pc = "returned" /\ outcome = "guess_done" /\ max_pos >= 1) =>
        \A p \in 0..(dataset.num_pixels - 1), f \in 0..(num_forcs - 1) :
            /\ Cardinality(ChunksHolding(call.log, p, f)) = 1
            /\ CoveredOnce(h5_projected_loops, p, ForcSlice(inds_per_forc.sho, f))
            /\ CoveredOnce(h5_loop_metrics, p, ForcSlice(inds_per_forc.met, f))
            /\ CoveredOnce(h5_guess, p, ForcSlice(inds_per_forc.met, f))

\* C3: whenever the planner has run to completion in a call (it has no failing exit),
\* it has yielded max_pos >= 1.
C3_PlannerYieldsAtLeastOne == call.planned => max_pos >= 1

\* C4: after the planner has run, max_pos * size_per_forc * 3.5 <= budget in bytes and
\* max_pos <= number of positions, and every chunk read holds at most max_pos positions.
C4_ChunkWithinBudget ==
    call.planned =>
        /\ max_pos * SizePerForc(dataset) * OverheadNum <= call.budget * MB * OverheadDen
        /\ max_pos <= dataset.num_pixels
        /\ \A i \in 1..Len(call.log) :
              call.log[i].ev = "read" => call.log[i].r1 - call.log[i].r0 <= max_pos
        /\ ~IsNone(data) => data.r1 - data.r0 <= max_pos

\* a call whose budget cuts the table into chunks: max_pos is the largest count the
\* budget allows, it is below the number of positions, and a chunk of max_pos was read
C4_Witness ==
    /\ call.planned
    /\ max_pos >= 1
    /\ max_pos < dataset.num_pixels
    /\ (max_pos + 1) * SizePerForc(dataset) * OverheadNum > call.budget * MB * OverheadDen
    /\ \E i \in 1..Len(call.log) :
          call.log[i].ev = "read" /\ call.log[i].r1 - call.log[i].r0 = max_pos

\* the Guess table holds one record for every position of every outer-cycle
GuessStored ==
    \A p \in 0..(dataset.num_pixels - 1), f \in 0..(num_forcs - 1) :
        CoveredOnce(h5_guess, p, ForcSlice(inds_per_forc.met, f))

\* C5: in every pass of do_fit's loop (run on a completely stored guess) the solver's
\* inputs belong to the pass's chunk: the loops are the chunk's own rectangle of
\* Projected_Loops, the guess is the stored guess of the same positions and
\* outer-cycle, the bias vector that of its outer-cycle.
C5_FitInputsOfOwnChunk ==
    GuessStored =>
    \A i \in 1..Len(call.results) :
        LET r == call.results[i]
            f == r.chunk.c0 \div inds_per_forc.sho
        IN  /\ r.loops = r.chunk
            /\ r.vdc = [start |-> r.chunk.c0, stop |-> r.chunk.c1]
            /\ r.guess = Rect("Guess", r.chunk.r0, r.chunk.r1, ForcSlice(inds_per_forc.met, f))

\* C6: a do_fit refused for want of a guess changes no field of the object and no table.
C6_RefusedFitIsNoOp ==
    [][(pc = "idle" /\ outcome' = "fit_refused") =>
          (objvars' = objvars /\ tabvars' = tabvars)]_vars

\* the read events of a log, in order
Reads(log) == SelectSeq(log, LAMBDA e : e.ev = "read")
\* successive chunks: the outer-cycle never decreases; within one the start increases
ChunkOrder(log) ==
    \A i \in 1..(Len(Reads(log)) - 1) :
        LET a == Reads(log)[i]
            b == Reads(log)[i + 1]
        IN  /\ b.forc_cols >= a.forc_cols
            /\ b.forc_cols = a.forc_cols => b.r0 > a.r0
\* the index of the last read before event j (0: none)
ReadBefore(log, j) ==
    IF \E i \in 1..(j - 1) : log[i].ev = "read"
    THEN CHOOSE i \in 1..(j - 1) :
            log[i].ev = "read" /\ \A k \in (i + 1)..(j - 1) : log[k].ev # "read"
    ELSE 0
\* before every read but the first, the chunk read last had event ev on each of tables
DoneBeforeNextRead(log, ev, tables) ==
    \A j \in 1..Len(log) :
        (log[j].ev = "read" /\ ReadBefore(log, j) > 0) =>
            LET i == ReadBefore(log, j)
            IN  \A t \in tables : \E k \in (i + 1)..(j - 1) :
                    log[k] = [log[i] EXCEPT !.ev = ev, !.table = t]
GuessTables == {"Projected_Loops", "Loop_Metrics", "Guess"}

\* C7 as stated: in do_guess and in do_fit (run on a completely stored guess) the
\* chunks are read in order and the write of a chunk finishes before the next chunk
\* is read.
C7_WritesBeforeNextRead ==
    /\ ChunkOrder(call.log)
    /\ call.name = "do_guess" => DoneBeforeNextRead(call.log, "write", GuessTables)
    /\ (call.name = "do_fit" /\ GuessStored) =>
          DoneBeforeNextRead(call.log, "write", {"Fit"})

\* C7 as amended: the chunks are read in order; in do_guess the three writes of a
\* chunk finish before the next chunk is read; in do_fit the results of a chunk are
\* appended to the list of results before the next chunk is read, and the Fit table
\* is written only after the loop has ended.
C7_OrderedChunks ==
    /\ ChunkOrder(call.log)
    /\ call.name = "do_guess" => DoneBeforeNextRead(call.log, "write", GuessTables)
    /\ call.name = "do_fit" =>
          /\ DoneBeforeNextRead(call.log, "fitted", {"results"})
          /\ pc = "fit_loop" =>
                /\ h5_fit.writes = <<>>
                /\ \A i \in 1..Len(call.log) : call.log[i].ev # "write"

\* a do_fit that read and fitted two chunks or more and has stored the Fit table
C7_Witness ==
    /\ pc = "returned" /\ outcome = "fit_done"
    /\ Len(call.results) >= 2
    /\ Len(h5_fit.writes) >= 2

(***************************************************************************)
(* SpecReshape: the reshape pair _reshape_sho_matrix (583-640) and         *)
(* _reshape_projected_loops_for_h5 (642-685) applied to one chunk.         *)
(*                                                                         *)
(* An array is [shape, flat]: its shape and its elements in C order.  The  *)
(* chunk holds the element ids 1..size, all different, so that equality of *)
(* two arrays means that every element is back at its own place; every     *)
(* other chunk of the same shape is the image of this one under a map of   *)
(* the ids.                                                                *)
(***************************************************************************)
\* range(a, b) as a list
Interval(a, b) == [i \in 1..(b - a) |-> a + i - 1]
Reverse(s) == [i \in 1..Len(s) |-> s[Len(s) + 1 - i]]
\* 1-based place of x in the list s
PlaceOf(s, x) == CHOOSE i \in 1..Len(s) : s[i] = x
RowOrders(m) == {q \in [1..m -> 1..m] : Range(q) = 1..m}

\* C-order offset of the index tuple idx (0-based entries) in an array of this shape
RECURSIVE Ravel(_, _)
Ravel(idx, shape) ==
    LET n == Len(idx)
    IN  IF n = 0 THEN 0
        ELSE Ravel(SubSeq(idx, 1, n - 1), SubSeq(shape, 1, n - 1)) * shape[n] + idx[n]

\* the index tuple of the C-order offset k
RECURSIVE Unravel(_, _)
Unravel(k, shape) ==
    LET n == Len(shape)
    IN  IF n = 0 THEN <<>>
        ELSE Append(Unravel(k \div shape[n], SubSeq(shape, 1, n - 1)), k % shape[n])

\* np.reshape(a, shape): the same elements in the same C order
NpReshape(a, shape) == [shape |-> shape, flat |-> a.flat]

\* np.transpose accepts axes only when they are a permutation of the array's axes
ValidAxes(a, axes) ==
    /\ Len(axes) = Len(a.shape)
    /\ Range(axes) = 0..(Len(a.shape) - 1)

\* np.transpose(a, axes): result[i_1..i_n] = a[j_1..j_n] with j_(axes[k]) = i_k
NpTranspose(a, axes) ==
    LET n == Len(axes)
        shape == [k \in 1..n |-> a.shape[axes[k] + 1]]
        Source(idx) == [j \in 1..n |-> idx[PlaceOf(axes, j - 1)]]
    IN  [shape |-> shape,
         flat |-> [k \in 1..SeqProduct(shape) |->
                      a.flat[Ravel(Source(Unravel(k - 1, shape)), a.shape) + 1]]]

\* hdf_utils.reshape_to_Ndims(raw_2d, h5_pos=None, h5_spec=rows): the chunk as
\* [position, axis of row 1, axis of row 2, ...].  card lists the rows' cardinalities,
\* sort the rows from the fastest changing to the slowest (get_sort_order).
ReshapeToNdims(raw, card, sort) ==
    LET slow_first == Reverse(sort)
        nd == NpReshape(raw, <<raw.shape[1]>> \o [k \in 1..Len(card) |-> card[slow_first[k]]])
    IN  NpTranspose(nd, <<0>> \o [r \in 1..Len(card) |-> PlaceOf(slow_first, r)])

\* hdf_utils.reshape_from_Ndims(nd, h5_pos=None, h5_spec=rows): back to
\* [position, column], the columns in acquisition order
ReshapeFromNdims(nd, sort) ==
    LET slow_first == Reverse(sort)
        t == NpTranspose(nd, <<0>> \o slow_first)
    IN  NpReshape(t, <<t.shape[1], SeqProduct(t.shape) \div t.shape[1]>>)

\* self._dc_offset_index = 1 + dc_ind (lines 163-165 and 452-454): one more than the
\* row of 'DC_Offset' among ALL the rows of the spectroscopic table
DcOffsetIndex(ds) == 1 + DcSpecIndex(ds)

\* order_dc_outside_nd (lines 625-626)
OrderDcOutsideNd(d, ndim) == <<d>> \o Interval(0, d) \o Interval(d + 1, ndim)

\* order_dc_offset_reverse (lines 627-628)
OrderDcOffsetReverse(d, ndim) == Interval(1, d + 1) \o <<0>> \o Interval(d + 1, ndim)

NoArray == [shape |-> <<>>, flat |-> <<>>]

\* _reshape_sho_matrix(raw_2d): [raised, loops_2d, order_dc_offset_reverse,
\* nd_mat_shape_dc_first]; np.transpose raises on axes that do not fit the array
ReshapeShoMatrix(raw, card, sort, d) ==
    LET fit_nd == ReshapeToNdims(raw, card, sort)
        ndim == Len(fit_nd.shape)
        order_dc_outside_nd == OrderDcOutsideNd(d, ndim)
        fit_nd2 == NpTranspose(fit_nd, order_dc_outside_nd)
    IN  IF ~ValidAxes(fit_nd, order_dc_outside_nd)
        THEN [raised |-> TRUE, loops_2d |-> NoArray, order_dc_offset_reverse |-> <<>>,
              nd_mat_shape_dc_first |-> <<>>]
        ELSE [raised |-> FALSE,
              loops_2d |-> NpReshape(fit_nd2, <<fit_nd2.shape[1],
                                         SeqProduct(fit_nd2.shape) \div fit_nd2.shape[1]>>),
              order_dc_offset_reverse |-> OrderDcOffsetReverse(d, ndim),
              nd_mat_shape_dc_first |-> fit_nd2.shape]

\* _reshape_projected_loops_for_h5(projected_loops_2d, order_dc_offset_reverse,
\* nd_mat_shape_dc_first)
ReshapeProjectedLoopsForH5(projected_loops_2d, order_dc_offset_reverse, nd_mat_shape_dc_first, sort) ==
    LET projected_loops_nd == NpReshape(projected_loops_2d, nd_mat_shape_dc_first)
        projected_loops_nd_2 == NpTranspose(projected_loops_nd, order_dc_offset_reverse)
    IN  ReshapeFromNdims(projected_loops_nd_2, sort)

\* spectroscopic tables whose chunks go through the pair (more than one retained
\* row, lines 239-245), with the rows in every order
ReshapeTables ==
    LET Table(labels, dims, q) ==
            [labels |-> [i \in 1..Len(labels) |-> labels[q[i]]],
             dims |-> [i \in 1..Len(labels) |-> dims[q[i]]]]
    IN  {Table(<<"DC_Offset", "Field">>, <<NumDcSteps, NumFields>>, q) :
            q \in RowOrders(2)}
        \cup {Table(<<"DC_Offset", "Field", "FORC">>, <<NumDcSteps, NumFields, f>>, q) :
                 q \in RowOrders(3), f \in 1..MaxForcs}

\* the rows retained for a chunk and their cardinalities, as the planner leaves them
RetainedRows(ds) ==
    ShoAllButForcInds(ds, PlannedNumForcs(ds, 1), PlannedNumRepeats(ds, 1))
RetainedCard(ds) == [k \in 1..Len(RetainedRows(ds)) |-> ds.dims[RetainedRows(ds)[k] + 1]]

\* self.data: num_pixels positions by the columns of one outer-cycle
RawChunk(ds) ==
    LET cols == SeqProduct(RetainedCard(ds))
    IN  [shape |-> <<ds.num_pixels, cols>>,
         flat |-> [k \in 1..(ds.num_pixels * cols) |-> k]]

InitReshape ==
    /\ dataset \in {[labels |-> t.labels, dims |-> t.dims, num_pixels |-> n] :
                       t \in ReshapeTables, n \in 1..MaxPixels}
    /\ ObjInit
    /\ pc = "idle"
    /\ outcome = "none"
    /\ call = NoCall
    /\ gc = GcIdle
    /\ \E sort \in RowOrders(Len(RetainedRows(dataset))) :
          rs = [phase |-> "chunk", sort |-> sort, raw |-> RawChunk(dataset),
                loops_2d |-> NoArray, order_dc_offset_reverse |-> <<>>,
                nd_mat_shape_dc_first |-> <<>>, out |-> NoArray]

\* do_guess / do_fit call _reshape_sho_matrix on the chunk (lines 244, 363)
Flatten ==
    /\ rs.phase = "chunk"
    /\ LET r == ReshapeShoMatrix(rs.raw, RetainedCard(dataset), rs.sort,
                                 DcOffsetIndex(dataset))
       IN  rs' = [rs EXCEPT !.phase = IF r.raised THEN "raised" ELSE "loops",
                            !.loops_2d = r.loops_2d,
                            !.order_dc_offset_reverse = r.order_dc_offset_reverse,
                            !.nd_mat_shape_dc_first = r.nd_mat_shape_dc_first]
    /\ UNCHANGED <<drivervars, gc>>

\* the loops go back through _reshape_projected_loops_for_h5 (line 256)
Unflatten ==
    /\ rs.phase = "loops"
    /\ rs' = [rs EXCEPT !.phase = "table",
                        !.out = ReshapeProjectedLoopsForH5(rs.loops_2d,
                                    rs.order_dc_offset_reverse,
                                    rs.nd_mat_shape_dc_first, rs.sort)]
    /\ UNCHANGED <<drivervars, gc>>

NextReshape == Flatten \/ Unflatten

SpecReshape == InitReshape /\ [][NextReshape]_vars

\* C2: for every chunk whose columns factor into the retained rows' cardinalities and
\* every place of the bias row among the rows, flattening does not fail and
\* unflattening its result gives back the chunk, element for element.
C2_RoundTripReturnsChunk ==
    /\ rs.phase # "raised"
    /\ rs.phase = "table" => rs.out = rs.raw

(***************************************************************************)
(* SpecCascade: _guess_loops (960-1058) on the loops of one chunk.         *)
(*                                                                         *)
(* KMeans, linkage, ClusterTree, fit_loop and generate_guess are library   *)
(* code: the labels and the linkage are inputs, and a number the library   *)
(* returns is named by where it comes from.  A value is [src, node, ok,    *)
(* single]: what produced it, for which tree node, from a fit that         *)
(* converged or not, and whether it has been stored in single precision.   *)
(***************************************************************************)
\* the largest number of loops in a chunk
MaxLoops == 9
\* up to this many loops every label vector is tried; above, one per multiset
SmallLoops == 4

\* int(n ** 0.5)
ISqrt(n) == CHOOSE r \in 0..n : r * r <= n /\ (r + 1) * (r + 1) > n

\* a mutant of NumClusters: the square root rounded to the nearest integer
NumClustersRounded(n) == Max(2, CHOOSE r \in 0..n : (2 * r - 1) * (2 * r - 1) <= 4 * n
                                                    /\ (2 * r + 1) * (2 * r + 1) > 4 * n)

\* num_clusters = max(2, int(projected_loops_2d.shape[0] ** 0.5)) (line 1016)
NumClusters(n) == Max(2, ISqrt(n))

\* results.labels_: one cluster id in 0..k-1 per loop
LabelVectors(n, k) ==
    IF n <= SmallLoops
    THEN [1..n -> 0..(k - 1)]
    ELSE {l \in [1..n -> 0..(k - 1)] :
             /\ \A i \in 1..(n - 1) : l[i] <= l[i + 1]
             /\ \A c \in 0..(k - 1) : \E i \in 1..n : l[i] = c}

\* linkage_pairing[:, :2]: row i joins two nodes not joined before, the smaller id
\* first, into node k + i - 1 (the leaves are the nodes 0..k-1)
RECURSIVE LinkagesFrom(_, _, _)
LinkagesFrom(avail, next, rows) ==
    IF Cardinality(avail) <= 1 THEN {rows}
    ELSE UNION {LinkagesFrom((avail \ {a, b}) \cup {next}, next + 1,
                             Append(rows, <<a, b>>)) :
                   <<a, b>> \in {pr \in avail \X avail : pr[1] < pr[2]}}
Linkages(k) == LinkagesFrom(0..(k - 1), k, <<>>)

\* ClusterTree: num_nodes, the root (cluster_tree.tree, the last node), the children
\* and the parent of a node
NumNodes(k) == 2 * k - 1
RootOf(k) == NumNodes(k) - 1
ChildrenOf(linkage, k, name) == IF name < k THEN <<>> ELSE linkage[name - k + 1]
ParentOf(linkage, k, name) ==
    CHOOSE q \in k..RootOf(k) :
        \E j \in 1..Len(ChildrenOf(linkage, k, q)) : ChildrenOf(linkage, k, q)[j] = name

\* values
Zeros == [src |-> "zeros", node |-> 0 - 1, ok |-> TRUE, single |-> TRUE]
GenerateGuess(name) == [src |-> "generate_guess", node |-> name, ok |-> TRUE, single |-> FALSE]
\* the cast of an assignment into a float32 array or a loop_fit32 record
Float32(v) == [v EXCEPT !.single = TRUE]

\* fit_loop(vdc_shifted, np.roll(tree.value, shift_ind), guess): the solver's result
\* [x, fun, success]; guess is kept with it to tell what the fit started from
FitLoop(name, guess_row, ok) ==
    [x |-> [src |-> "x", node |-> name, ok |-> ok, single |-> FALSE],
     fun |-> [src |-> "fun", node |-> name, ok |-> ok, single |-> FALSE],
     success |-> ok,
     guess |-> guess_row]
\* loop_fit_results[i] = i before node i is fitted (line 1038)
Placeholder(name) == [x |-> Zeros, fun |-> Zeros, success |-> FALSE, guess |-> Zeros]

\* a mutant of LastRow: the first row of the matrix
FirstRow(mat) == 1

\* loop_guess_mat[-1] (line 1043): the place of the last row of the matrix
LastRow(mat) == Len(mat)

\* a mutant of ChildSeed: the node hands down the guess it was given itself
ChildSeedOwnGuess(curr_fit_results, guess_mat, name) == guess_mat[name + 1]

\* guess_mat[child.name] = curr_fit_results[0].x (line 1011), stored in float32
ChildSeed(curr_fit_results, guess_mat, name) == Float32(curr_fit_results.x)

\* a mutant of ClusterFit: every cluster is given the fit of the root
ClusterFitOfRoot(loop_fit_results, clust_id) == loop_fit_results[Len(loop_fit_results)]

\* loop_fit_results[clust_id] (lines 1052, 1054)
ClusterFit(loop_fit_results, clust_id) == loop_fit_results[clust_id + 1]

\* r2 = 1 - np.sum(np.abs(fun ** 2)) (line 1054)
R2(fun) == [fun EXCEPT !.src = "r2"]

\* realToCompound(np.hstack([x, r2]), loop_fit32) (line 1055)
RealToCompound(x, r2) == [coef |-> Float32(x), r2 |-> Float32(r2)]
ZeroRecord == [coef |-> Zeros, r2 |-> Zeros]

\* the loop of lines 1050-1055 from clust_id on: guess_parms and, for every pixel,
\* how many times it has been assigned
RECURSIVE AssignClusters(_, _, _, _, _)
AssignClusters(acc, labels, loop_fit_results, clust_id, num_clusters) ==
    IF clust_id >= num_clusters THEN acc
    ELSE LET fit == ClusterFit(loop_fit_results, clust_id)
             rec == RealToCompound(fit.x, R2(fit.fun))
             InCluster(i) == labels[i] = clust_id
         IN  AssignClusters(
                 [guess_parms |-> [i \in 1..Len(labels) |->
                                      IF InCluster(i) THEN rec ELSE acc.guess_parms[i]],
                  assigned |-> [i \in 1..Len(labels) |->
                                   acc.assigned[i] + (IF InCluster(i) THEN 1 ELSE 0)]],
                 labels, loop_fit_results, clust_id + 1, num_clusters)

InitCascade ==
    /\ dataset = [labels |-> <<"DC_Offset">>, dims |-> <<NumDcSteps>>, num_pixels |-> 1]
    /\ ObjInit
    /\ pc = "idle"
    /\ outcome = "none"
    /\ call = NoCall
    /\ rs = RsIdle
    /\ \E n \in 2..MaxLoops :
          \E labels \in LabelVectors(n, NumClusters(n)),
             linkage \in Linkages(NumClusters(n)) :
              gc = [phase |-> "input", labels |-> labels, linkage |-> linkage,
                    num_clusters |-> NumClusters(n),
                    loop_guess_mat |-> <<>>, loop_fit_results |-> <<>>,
                    stack |-> <<>>, order |-> <<>>,
                    guess_parms |-> <<>>, assigned |-> <<>>]

\* lines 1016-1043: the tree is built, the matrices are prepared, the root is guessed
GuessLoopsStart ==
    /\ gc.phase = "input"
    /\ LET k == gc.num_clusters
           zeros == [i \in 1..NumNodes(k) |-> Zeros]
       IN  gc' = [gc EXCEPT
                    !.phase = "tree",
                    !.loop_guess_mat =
                        [zeros EXCEPT ![LastRow(zeros)] = Float32(GenerateGuess(RootOf(k)))],
                    !.loop_fit_results = [i \in 1..NumNodes(k) |-> Placeholder(i - 1)],
                    !.stack = <<[name |-> RootOf(k), fitted |-> FALSE, child |-> 1,
                                 curr_fit_results |-> Placeholder(RootOf(k))]>>]
    /\ UNCHANGED <<drivervars, rs>>

\* _loop_fit_tree, lines 1006-1008: the node of the innermost call is fitted
FitNode(ok) ==
    /\ gc.phase = "tree"
    /\ gc.stack # <<>>
    /\ LET top == Len(gc.stack)
           f == gc.stack[top]
           res == FitLoop(f.name, gc.loop_guess_mat[f.name + 1], ok)
       IN  /\ ~f.fitted
           /\ gc' = [gc EXCEPT
                        !.loop_fit_results[f.name + 1] = res,
                        !.stack[top] = [f EXCEPT !.fitted = TRUE, !.curr_fit_results = res],
                        !.order = Append(@, f.name)]
    /\ UNCHANGED <<drivervars, rs>>

\* lines 1009-1013: the next child is seeded and _loop_fit_tree is entered for it
SeedChild ==
    /\ gc.phase = "tree"
    /\ gc.stack # <<>>
    /\ LET top == Len(gc.stack)
           f == gc.stack[top]
           children == ChildrenOf(gc.linkage, gc.num_clusters, f.name)
       IN  /\ f.fitted
           /\ f.child <= Len(children)
           /\ LET child == children[f.child]
              IN  gc' = [gc EXCEPT
                           !.loop_guess_mat[child + 1] =
                               ChildSeed(f.curr_fit_results, gc.loop_guess_mat, f.name),
                           !.stack = Append([@ EXCEPT ![top].child = f.child + 1],
                                            [name |-> child, fitted |-> FALSE, child |-> 1,
                                             curr_fit_results |-> Placeholder(child)])]
    /\ UNCHANGED <<drivervars, rs>>

\* line 1014: the innermost call returns
ReturnFromNode ==
    /\ gc.phase = "tree"
    /\ gc.stack # <<>>
    /\ LET top == Len(gc.stack)
           f == gc.stack[top]
       IN  /\ f.fitted
           /\ f.child > Len(ChildrenOf(gc.linkage, gc.num_clusters, f.name))
           /\ gc' = [gc EXCEPT !.stack = SubSeq(@, 1, top - 1)]
    /\ UNCHANGED <<drivervars, rs>>

\* lines 1049-1058: the records of the pixels, cluster by cluster
AssignGuesses ==
    /\ gc.phase = "tree"
    /\ gc.stack = <<>>
    /\ LET n == Len(gc.labels)
           acc == AssignClusters([guess_parms |-> [i \in 1..n |-> ZeroRecord],
                                  assigned |-> [i \in 1..n |-> 0]],
                                 gc.labels, gc.loop_fit_results, 0, gc.num_clusters)
       IN  gc' = [gc EXCEPT !.phase = "done",
                            !.guess_parms = acc.guess_parms,
                            !.assigned = acc.assigned]
    /\ UNCHANGED <<drivervars, rs>>

NextCascade ==
    \/ GuessLoopsStart
    \/ \E ok \in BOOLEAN : FitNode(ok)
    \/ SeedChild
    \/ ReturnFromNode
    \/ AssignGuesses

SpecCascade == InitCascade /\ [][NextCascade]_vars

\* places of node name in the order of the fits
FitsOf(name) == {i \in 1..Len(gc.order) : gc.order[i] = name}
CascadeNodes == 0..(NumNodes(gc.num_clusters) - 1)
CascadeOver == gc.phase = "done" \/ (gc.phase = "tree" /\ gc.stack = <<>>)

\* C8: no node of the tree is fitted twice and, once the cascade is over, every node
\* has been fitted; a node is fitted only after its parent's fit has returned; the fit
\* of a node other than the root starts from the coefficients its own parent's fit
\* returned, as the single-precision guess matrix holds them; the fit of the root,
\* and of no other node, starts from generate_guess.
C8_NodesSeededByParent ==
    gc.phase \in {"tree", "done"} =>
        LET k == gc.num_clusters
        IN  /\ \A q \in CascadeNodes : Cardinality(FitsOf(q)) <= 1
            /\ CascadeOver => \A q \in CascadeNodes : Cardinality(FitsOf(q)) = 1
            /\ \A i \in 1..Len(gc.order) :
                  LET q == gc.order[i]
                      fit == gc.loop_fit_results[q + 1]
                  IN  IF q = RootOf(k)
                      THEN fit.guess = Float32(GenerateGuess(q))
                      ELSE LET parent == ParentOf(gc.linkage, k, q)
                           IN  /\ \E j \in 1..(i - 1) : gc.order[j] = parent
                               /\ fit.guess = Float32(gc.loop_fit_results[parent + 1].x)
                               /\ fit.guess.src # "generate_guess"

\* a cascade over three clusters has ended: a node has a parent that is not the root
C8_Witness ==
    /\ gc.phase = "done"
    /\ gc.num_clusters >= 3
    /\ Len(gc.order) = NumNodes(gc.num_clusters)

\* C9: when the fit of a node has not converged, its children are fitted from the
\* guess the node itself was fitted from (the coefficients of its nearest converged
\* ancestor), not from the coefficients the failed fit returned.
C9_FailedFitFallsBack ==
    gc.phase \in {"tree", "done"} =>
        \A i \in 1..Len(gc.order) :
            LET q == gc.order[i]
            IN  q # RootOf(gc.num_clusters) =>
                    LET parent == gc.loop_fit_results[
                                      ParentOf(gc.linkage, gc.num_clusters, q) + 1]
                    IN  ~parent.success =>
                            /\ gc.loop_fit_results[q + 1].guess = parent.guess
                            /\ gc.loop_fit_results[q + 1].guess # Float32(parent.x)

\* C10: the record of every pixel is made of the fit of the leaf node whose index is
\* the pixel's cluster label (its coefficients and its r2, in the record's single
\* precision); every pixel is given a record exactly once; pixels with one label have
\* one record.
C10_PixelHoldsLeafFit ==
    gc.phase = "done" =>
        /\ Len(gc.guess_parms) = Len(gc.labels)
        /\ \A i \in 1..Len(gc.labels) :
              LET leaf == gc.labels[i]
                  fit == gc.loop_fit_results[leaf + 1]
              IN  /\ leaf < gc.num_clusters
                  /\ ChildrenOf(gc.linkage, gc.num_clusters, leaf) = <<>>
                  /\ gc.guess_parms[i] = [coef |-> Float32(fit.x), r2 |-> Float32(R2(fit.fun))]
                  /\ gc.guess_parms[i].coef.node = leaf
                  /\ gc.assigned[i] = 1
        /\ \A i, j \in 1..Len(gc.labels) :
              gc.labels[i] = gc.labels[j] => gc.guess_parms[i] = gc.guess_parms[j]

\* records have been given to pixels of three clusters, two pixels sharing a cluster
C10_Witness ==
    /\ gc.phase = "done"
    /\ Cardinality(Range(gc.labels)) >= 3
    /\ \E i, j \in 1..Len(gc.labels) : i # j /\ gc.labels[i] = gc.labels[j]
    /\ \E i, j \in 1..Len(gc.labels) : gc.guess_parms[i] # gc.guess_parms[j]

\* C11 as stated: the cascade uses k = max(2, round(sqrt(n))) clusters for n loops:
\* k >= 2, and k is 2 or the integer nearest to sqrt(n).
C11_ClustersRoundedRoot ==
    gc.phase \in {"tree", "done"} =>
        LET n == Len(gc.labels)
            k == gc.num_clusters
        IN  /\ k >= 2
            /\ (2 * k + 1) * (2 * k + 1) > 4 * n
            /\ k > 2 => (2 * k - 1) * (2 * k - 1) <= 4 * n

\* C11 amended: the cascade uses k = max(2, int(sqrt(n))) clusters for n loops, the
\* square root cut down to an integer: k >= 2, (k + 1)^2 > n, and k is 2 or k^2 <= n.
C11_ClustersTruncatedRoot ==
    gc.phase \in {"tree", "done"} =>
        LET n == Len(gc.labels)
            k == gc.num_clusters
        IN  /\ k >= 2
            /\ (k + 1) * (k + 1) > n
            /\ k > 2 => k * k <= n

\* a cascade has run on 7 loops, whose root 2.6... rounds up to 3, with 2 clusters
C11_Witness ==
    /\ gc.phase = "done"
    /\ Len(gc.labels) = 7
    /\ gc.num_clusters = 2

\* the nodes that have name among their children
ParentsOf(name) ==
    {q \in CascadeNodes :
        \E j \in 1..Len(ChildrenOf(gc.linkage, gc.num_clusters, q)) :
            ChildrenOf(gc.linkage, gc.num_clusters, q)[j] = name}

DimNamesOrig(ds) ==
    <<"Positions">> \o [k \in 1..Len(RetainedRows(ds)) |-> ds.labels[RetainedRows(ds)[k] + 1]]

\* dim_names_dc_out = dim_names_orig[order_dc_outside_nd] (line 630)
DimNamesDcOut(ds) ==
    LET order == OrderDcOutsideNd(DcOffsetIndex(ds), Len(DimNamesOrig(ds)))
    IN  [i \in 1..Len(order) |-> DimNamesOrig(ds)[order[i] + 1]]

\* C13: for every order of the rows of the spectroscopic table, _reshape_sho_matrix
\* returns loops whose leading axis is the DC_Offset axis: the first name of
\* dim_names_dc_out is DC_Offset, and the loops have one row per bias step.
C13_BiasAxisLeads ==
    rs.phase \in {"loops", "table"} =>
        /\ DimNamesDcOut(dataset)[1] = "DC_Offset"
        /\ rs.nd_mat_shape_dc_first[1] = dataset.dims[DcSpecIndex(dataset) + 1]

\* C14: when do_fit (run on a guess that do_guess has written) has gone through all
\* its chunks, the assembled results hold, for
\* every position p and every outer-cycle f, exactly one block covering row p in the
\* columns of f, and that block is the result of the chunk that held position p of
\* outer-cycle f, its rows at the chunk's own positions.
C14_FitCoversAllPositions ==
    (pc = "returned" /\ outcome = "fit_done" /\ h5_guess.writes # <<>>) =>
        \A p \in 0..(dataset.num_pixels - 1), f \in 0..(num_forcs - 1) :
            /\ CoveredOnce(h5_fit, p, ForcSlice(inds_per_forc.met, f))
            /\ \A i \in Covering(h5_fit, p, ForcSlice(inds_per_forc.met, f).start) :
                  /\ h5_fit.writes[i].src.r0 = h5_fit.writes[i].r0
                  /\ h5_fit.writes[i].src.c0 = ForcSlice(inds_per_forc.sho, f).start

(***************************************************************************)
(* SpecCommit: do_guess with the body of its loop (lines 231-273) taken    *)
(* statement by statement.  hdf_utils.reshape_to_Ndims and                 *)
(* reshape_from_Ndims are library calls that report success or failure;    *)
(* on a failure the methods of this class warn and return None (lines      *)
(* 614-616, 679-681, 724-726).  What the assignment of None to a slice of  *)
(* an h5py dataset does is not fixed by the source: it either raises or    *)
(* stores.  A value computed from a chunk is named by the chunk; rs holds  *)
(* the locals of the pass.                                                 *)
(***************************************************************************)
PassIdle ==
    [phase |-> "off", projected_loops_2d |-> NoData, metrics_2d |-> NoData,
     guessed_loops_2 |-> NoData, failed |-> FALSE]

InitCommit ==
    /\ dataset \in {[labels |-> t.labels, dims |-> t.dims, num_pixels |-> n] :
                       t \in SpecTables, n \in 1..MaxPixels}
    /\ ObjInit
    /\ pc = "idle"
    /\ outcome = "none"
    /\ call = NoCall
    /\ rs = PassIdle
    /\ gc = GcIdle

\* len(self._sho_all_but_forc_inds) == 1 (line 239): the chunk is a single loop per row
SingleLoop == Len(all_but_forc) = 1

\* lines 239-245: the chunk is turned into loops.  When _reshape_sho_matrix returns
\* None, the unpacking of its result at line 244 raises
PassReshape(ok) ==
    /\ pc = "guess_loop"
    /\ ~IsNone(data)
    /\ ~IsEmptyChunk(data)
    /\ rs.phase = "off"
    /\ SingleLoop => ok
    /\ IF ok
       THEN /\ rs' = [rs EXCEPT !.phase = "loops"]
            /\ UNCHANGED <<pc, outcome>>
       ELSE /\ rs' = [rs EXCEPT !.phase = "raised", !.failed = TRUE]
            /\ pc' = "returned"
            /\ outcome' = "raised"
    /\ UNCHANGED <<dataset, objvars, tabvars, call, gc>>

\* lines 251-252: _project_loop_batch and _guess_loops on the loops of the chunk
PassProjectAndGuess ==
    /\ pc = "guess_loop"
    /\ rs.phase = "loops"
    /\ rs' = [rs EXCEPT !.phase = "guessed"]
    /\ UNCHANGED <<drivervars, gc>>

\* the result of a reshape back to the layout of the file: None when
\* reshape_from_Ndims reports a failure (lines 679-681, 724-726)
ReshapedBack(ok, d) == IF ok THEN d ELSE NoData

\* lines 254-262: the projected loops (unless the chunk is a single loop per row),
\* the metrics and the guesses are reshaped back; no result is looked at
PassReshapeBack(okp, okm, okg) ==
    /\ pc = "guess_loop"
    /\ rs.phase = "guessed"
    /\ SingleLoop => okp
    /\ rs' = [rs EXCEPT !.phase = "ready",
                        !.projected_loops_2d = ReshapedBack(okp, data),
                        !.metrics_2d = ReshapedBack(okm, data),
                        !.guessed_loops_2 = ReshapedBack(okg, data),
                        !.failed = ~(okp /\ okm /\ okg)]
    /\ UNCHANGED <<drivervars, gc>>

\* table[self._start_pos:self._end_pos, slice] = value: the table after the
\* assignment when it stores
SliceAssign(t, slice, value) == TableWrite(t, start_pos, end_pos, slice, value)

\* the assignment of None raises (stores = FALSE) or stores; another value is stored
WriteOutcome(value, stores) == IsNone(value) \/ stores

\* line 265
WriteProjectedLoops(stores) ==
    /\ pc = "guess_loop"
    /\ rs.phase = "ready"
    /\ WriteOutcome(rs.projected_loops_2d, stores)
    /\ IF stores
       THEN /\ h5_projected_loops' = SliceAssign(h5_projected_loops, sho_slice,
                                                 rs.projected_loops_2d)
            /\ rs' = [rs EXCEPT !.phase = "w1"]
            /\ UNCHANGED <<pc, outcome>>
       ELSE /\ rs' = [rs EXCEPT !.phase = "raised"]
            /\ pc' = "returned"
            /\ outcome' = "raised"
            /\ UNCHANGED h5_projected_loops
    /\ UNCHANGED <<dataset, objvars, h5_loop_metrics, h5_guess, h5_fit, h5_parameters,
                   call, gc>>

\* line 266
WriteLoopMetrics(stores) ==
    /\ pc = "guess_loop"
    /\ rs.phase = "w1"
    /\ WriteOutcome(rs.metrics_2d, stores)
    /\ IF stores
       THEN /\ h5_loop_metrics' = SliceAssign(h5_loop_metrics, met_slice, rs.metrics_2d)
            /\ rs' = [rs EXCEPT !.phase = "w2"]
            /\ UNCHANGED <<pc, outcome>>
       ELSE /\ rs' = [rs EXCEPT !.phase = "raised"]
            /\ pc' = "returned"
            /\ outcome' = "raised"
            /\ UNCHANGED h5_loop_metrics
    /\ UNCHANGED <<dataset, objvars, h5_projected_loops, h5_guess, h5_fit, h5_parameters,
                   call, gc>>

\* line 267
WriteGuess(stores) ==
    /\ pc = "guess_loop"
    /\ rs.phase = "w2"
    /\ WriteOutcome(rs.guessed_loops_2, stores)
    /\ IF stores
       THEN /\ h5_guess' = SliceAssign(h5_guess, met_slice, rs.guessed_loops_2)
            /\ rs' = [rs EXCEPT !.phase = "w3"]
            /\ UNCHANGED <<pc, outcome>>
       ELSE /\ rs' = [rs EXCEPT !.phase = "raised"]
            /\ pc' = "returned"
            /\ outcome' = "raised"
            /\ UNCHANGED h5_guess
    /\ UNCHANGED <<dataset, objvars, h5_projected_loops, h5_loop_metrics, h5_fit,
                   h5_parameters, call, gc>>

\* lines 272-273: the cursor moves on and the next chunk is read
PassNext ==
    /\ pc = "guess_loop"
    /\ rs.phase = "w3"
    /\ LET nc == NextChunk("h5_main", dataset, end_pos, end_pos, current_forc,
                           sho_slice, met_slice, dc_vec, max_pos, num_forcs, inds_per_forc)
       IN  /\ SetCursor(nc)
           /\ call' = [call EXCEPT !.log = LogRead(@, nc.data)]
    /\ rs' = PassIdle
    /\ UNCHANGED <<dataset, num_forcs, num_forc_repeats, max_pos, inds_per_forc,
                   all_but_forc, guess, maxDataChunk, tabvars, pc, outcome, gc>>

NextCommit ==
    \/ \E m \in MemArgs, g \in BOOLEAN : DoGuessStart(m, g)
    \/ \E ok \in BOOLEAN : PassReshape(ok)
    \/ PassProjectAndGuess
    \/ \E okp, okm, okg \in BOOLEAN : PassReshapeBack(okp, okm, okg)
    \/ \E stores \in BOOLEAN : WriteProjectedLoops(stores)
    \/ \E stores \in BOOLEAN : WriteLoopMetrics(stores)
    \/ \E stores \in BOOLEAN : WriteGuess(stores)
    \/ PassNext
    \/ GuessChunkRaises
    \/ DoGuessReturn

SpecCommit == InitCommit /\ [][NextCommit]_vars

\* the rows of the blocks of a table, in the order of the assignments
BlockRows(t) == [i \in 1..Len(t.writes) |-> <<t.writes[i].r0, t.writes[i].r1>>]
\* every block of the table holds values computed from a chunk
BlocksComputed(t) == \A i \in 1..Len(t.writes) : ~IsNone(t.writes[i].src)
\* the blocks of the table assigned at the rows and columns of the chunk in hand
BlocksOfChunk(t, slice) ==
    {i \in 1..Len(t.writes) : /\ t.writes[i].r0 = start_pos /\ t.writes[i].r1 = end_pos
                              /\ t.writes[i].c0 = slice.start}
\* do_guess is between two passes of its loop, or over
BetweenPasses == (pc = "guess_loop" /\ rs.phase = "off") \/ pc = "returned"

\* C15: the three writes of a chunk in do_guess are one commit: whenever do_guess is
\* between two chunks or has ended (by return or by an exception), Projected_Loops,
\* Loop_Metrics and Guess hold blocks for the same chunks, each block computed from
\* its chunk; a chunk whose computation failed has a block in none of them.
C15_ChunkCommittedWhole ==
    BetweenPasses =>
        /\ BlockRows(h5_projected_loops) = BlockRows(h5_loop_metrics)
        /\ BlockRows(h5_loop_metrics) = BlockRows(h5_guess)
        /\ BlocksComputed(h5_projected_loops)
        /\ BlocksComputed(h5_loop_metrics)
        /\ BlocksComputed(h5_guess)

\* C16: once a reshape of the chunk in hand has reported a failure, the pass is
\* aborted: no assignment to Projected_Loops, Loop_Metrics or Guess is made for the
\* chunk, and none of the three tables holds a block at its rows.
C16_MalformedChunkAborted ==
    (pc \in {"guess_loop", "returned"} /\ rs.failed) =>
        /\ rs.phase \in {"ready", "raised"}
        /\ BlocksOfChunk(h5_projected_loops, sho_slice) = {}
        /\ BlocksOfChunk(h5_loop_metrics, met_slice) = {}
        /\ BlocksOfChunk(h5_guess, met_slice) = {}

\* the divisor of the columns per cycle: outer cycles times repeats (lines 565-566)
CycleCount == num_forcs * num_forc_repeats
\* the block or slice with bounds c0, c1 is the columns of outer cycle c exactly
ColumnsOfCycle(c0, c1, per_forc, c) == c0 = c * per_forc /\ c1 = (c + 1) * per_forc
\* the slices of outer cycles c and d, each per_forc columns wide, share no column
CycleSlicesApart(per_forc, c, d) ==
    (c + 1) * per_forc <= d * per_forc \/ (d + 1) * per_forc <= c * per_forc

\* C17: once the planner has run, the columns per cycle of the raw table and of the
\* metrics table are the total columns divided by (outer cycles x repeats) with no
\* remainder; the slices in force are the columns of the current outer cycle in both
\* tables; every block written to Projected_Loops, Loop_Metrics and Guess is the
\* columns of one outer cycle, the same cycle for the three blocks of a chunk; and
\* the slices of two distinct cycles share no column.
C17_SlicesAlignedToCycles ==
    call.planned =>
        /\ inds_per_forc.sho * CycleCount = ShoColumns(dataset)
        /\ inds_per_forc.met * CycleCount = MetColumns(dataset)
        /\ ColumnsOfCycle(sho_slice.start, sho_slice.stop, inds_per_forc.sho, current_forc)
        /\ ColumnsOfCycle(met_slice.start, met_slice.stop, inds_per_forc.met, current_forc)
        /\ Len(h5_projected_loops.writes) = Len(h5_loop_metrics.writes)
        /\ Len(h5_loop_metrics.writes) = Len(h5_guess.writes)
        /\ \A i \in 1..Len(h5_projected_loops.writes) :
              \E c \in 0..(num_forcs - 1) :
                 /\ ColumnsOfCycle(h5_projected_loops.writes[i].c0,
                                   h5_projected_loops.writes[i].c1, inds_per_forc.sho, c)
                 /\ ColumnsOfCycle(h5_loop_metrics.writes[i].c0,
                                   h5_loop_metrics.writes[i].c1, inds_per_forc.met, c)
                 /\ ColumnsOfCycle(h5_guess.writes[i].c0,
                                   h5_guess.writes[i].c1, inds_per_forc.met, c)
        /\ \A c, d \in 0..(num_forcs - 1) :
              c # d => /\ CycleSlicesApart(inds_per_forc.sho, c, d)
                       /\ CycleSlicesApart(inds_per_forc.met, c, d)

\* a do_guess over two outer cycles with repeats has written the chunk of the second
\* outer cycle
C17_Witness ==
    /\ call.name = "do_guess"
    /\ num_forcs = MaxForcs
    /\ num_forc_repeats = MaxRepeats
    /\ Len(h5_guess.writes) = 2
    /\ h5_guess.writes[2].c0 = inds_per_forc.met
    /\ h5_projected_loops.writes[2].c0 = inds_per_forc.sho

(***************************************************************************)
(* SpecPlanner: _get_sho_chunk_sizes (lines 506-581) on its own, over      *)
(* every spectroscopic table of up to three axes: DC_Offset, and any of    *)
(* Field, an outer-cycle axis (FORC or FORC_Cycle) and FORC_repeat, in     *)
(* any order.                                                              *)
(***************************************************************************)
AxisLabels == {"DC_Offset", "Field", "FORC", "FORC_Cycle", "FORC_repeat"}
MaxAxes == 3
\* the cardinalities an axis can have
AxisCards(label) ==
    CASE label = "DC_Offset" -> {NumDcSteps}
      [] label = "Field" -> 1..NumFields
      [] label = "FORC_repeat" -> 1..MaxRepeats
      [] OTHER -> 1..MaxForcs
LabelRows ==
    {l \in UNION {[1..n -> AxisLabels] : n \in 1..MaxAxes} :
        /\ "DC_Offset" \in Range(l)
        /\ \A i, j \in 1..Len(l) : i # j => l[i] # l[j]
        /\ ~("FORC" \in Range(l) /\ "FORC_Cycle" \in Range(l))}
PlannerTables ==
    UNION {{[labels |-> l, dims |-> d] :
              d \in {e \in [1..Len(l) -> 1..Max(Max(NumDcSteps, NumFields), Max(MaxForcs, MaxRepeats))] :
                        \A i \in 1..Len(l) : e[i] \in AxisCards(l[i])}} : l \in LabelRows}

InitPlanner ==
    /\ dataset \in {[labels |-> t.labels, dims |-> t.dims, num_pixels |-> n] :
                       t \in PlannerTables, n \in 1..MaxPixels}
    /\ ObjInit
    /\ pc = "idle"
    /\ outcome = "none"
    /\ call = NoCall
    /\ rs = RsIdle
    /\ gc = GcIdle

\* self._get_sho_chunk_sizes(max_mem) (line 210)
PlanChunks(max_mem) ==
    /\ pc = "idle"
    /\ LET budget == Budget(max_mem, maxDataChunk)
       IN  /\ SetPlan(GetShoChunkSizes(dataset, num_forcs, num_forc_repeats, budget))
           /\ call' = [NoCall EXCEPT !.name = "_get_sho_chunk_sizes", !.budget = budget,
                                     !.planned = TRUE]
    /\ UNCHANGED <<dataset, start_pos, end_pos, current_forc, sho_slice, met_slice, dc_vec,
                   data, guess, maxDataChunk, tabvars, pc, outcome, rs, gc>>

NextPlanner == \E m \in MemArgs : PlanChunks(m)

SpecPlanner == InitPlanner /\ [][NextPlanner]_vars

\* the cardinality of the axis with the label, 1 when the table has no such axis
CardOfAxis(ds, label) ==
    IF label \in Range(ds.labels) THEN ds.dims[IndexOf(ds.labels, label) + 1] ELSE 1
\* row i of the table is an axis whose cardinality went into the divisor of the
\* columns per cycle with a factor above 1
CountedInDivisor(ds, i) ==
    \/ ds.labels[i + 1] \in {"FORC", "FORC_Cycle"} /\ num_forcs > 1
    \/ ds.labels[i + 1] = "FORC_repeat" /\ num_forc_repeats > 1

\* C18: after the planner has run, the outer-cycle count is the cardinality of the
\* FORC / FORC_Cycle axis and the repeat count is the cardinality of the FORC_repeat
\* axis, each 1 when the table has no such axis, and the repeat count whether or not
\* there is an outer-cycle axis; the rows left out of the per-chunk reshape are
\* exactly the axes counted in the divisor of the columns per cycle.
C18_AxesFoundIndependently ==
    call.planned =>
        /\ num_forcs = Max(CardOfAxis(dataset, "FORC"), CardOfAxis(dataset, "FORC_Cycle"))
        /\ num_forc_repeats = CardOfAxis(dataset, "FORC_repeat")
        /\ \A i \in 0..(Len(dataset.labels) - 1) :
              CountedInDivisor(dataset, i) <=> i \notin Range(all_but_forc)

(***************************************************************************)
(* SpecReformat: _reformat_results (lines 1094-1122) on the list of solver *)
(* results of a chunk.  A result has the attributes x (the coefficients,   *)
(* as many as the columns of self.guess, line 949) and fun (the residuals  *)
(* at the solution, a vector).  realToCompound is a function of            *)
(* io.io_utils: it splits the columns of a real matrix evenly over the     *)
(* fields of the compound type, and raises when they do not divide.  rs    *)
(* holds the argument and the result of the call.                          *)
(***************************************************************************)
MaxResults == 3
MaxResiduals == 11
\* field_names of loop_fit32 (lines 58-60)
field_names == <<"a_0", "a_1", "a_2", "a_3", "a_4", "b_0", "b_1", "b_2", "b_3", "R2 Criterion">>
\* the columns of self.guess: compound_to_scalar(guess)[:, :-1] (line 949)
NumCoefficients == Len(field_names) - 1
Strategies == {"BE_LOOP", "SHO"}

\* value k of the attribute attr of the result for pixel i
FitValue(attr, i, k) == [src |-> attr, node |-> i, ok |-> TRUE, single |-> FALSE, k |-> k]
SolverResult(i, m) ==
    [x |-> [k \in 1..NumCoefficients |-> FitValue("x", i, k)],
     fun |-> [j \in 1..m |-> FitValue("fun", i, j)]]

\* np.hstack([result.x, result.fun]) (line 1120)
Hstack(result) == result.x \o result.fun

\* realToCompound(ds_real, compound_type): each row becomes new_spec_length records;
\* field f of record j of a row is column (f - 1) * new_spec_length + j of the row,
\* cast to float32.  It raises a TypeError when the columns do not divide by the fields
RealToCompoundMatrix(ds_real, names) ==
    LET width == Len(ds_real[1])
        new_spec_length == width \div Len(names)
    IN  IF width % Len(names) # 0 THEN [raised |-> TRUE, rows |-> <<>>]
        ELSE [raised |-> FALSE,
              rows |-> [i \in 1..Len(ds_real) |->
                          [j \in 1..new_spec_length |->
                              [f \in 1..Len(names) |->
                                  Float32(ds_real[i][(f - 1) * new_spec_length + j])]]]]

InitReformat ==
    /\ dataset \in {[labels |-> <<"DC_Offset">>, dims |-> <<NumDcSteps>>, num_pixels |-> n] :
                       n \in 1..MaxResults}
    /\ ObjInit
    /\ pc = "idle"
    /\ outcome = "none"
    /\ call = NoCall
    /\ rs \in {[phase |-> "results", strategy |-> st,
                 results |-> [i \in 1..dataset.num_pixels |-> SolverResult(i, m)],
                 temp |-> <<>>] : st \in Strategies, m \in 1..MaxResiduals}
    /\ gc = GcIdle

\* _reformat_results(results, strategy): with another strategy than BE_LOOP temp is
\* never assigned and `return temp` raises
ReformatResults ==
    /\ rs.phase = "results"
    /\ LET temp == RealToCompoundMatrix([i \in 1..Len(rs.results) |-> Hstack(rs.results[i])],
                                        field_names)
       IN  IF rs.strategy = "BE_LOOP" /\ ~temp.raised
           THEN rs' = [rs EXCEPT !.phase = "reformatted", !.temp = temp.rows]
           ELSE rs' = [rs EXCEPT !.phase = "raised"]
    /\ UNCHANGED <<drivervars, gc>>

NextReformat == ReformatResults

SpecReformat == InitReformat /\ [][NextReformat]_vars

\* C19: for every length of the residual vector, _reformat_results on BE_LOOP results
\* returns one record per result, of the 10 fields of loop_fit32: the 9 coefficients
\* of the result in order, then one goodness-of-fit value made from its residuals.
C19_RecordOfTenValues ==
    (rs.phase \in {"reformatted", "raised"} /\ rs.strategy = "BE_LOOP") =>
        /\ rs.phase = "reformatted"
        /\ Len(rs.temp) = Len(rs.results)
        /\ \A i \in 1..Len(rs.results) :
              /\ Len(rs.temp[i]) = 1
              /\ Len(rs.temp[i][1]) = Len(field_names)
              /\ \A k \in 1..NumCoefficients :
                    rs.temp[i][1][k] = Float32(rs.results[i].x[k])
              /\ rs.temp[i][1][Len(field_names)].src = "fun"

(***************************************************************************)
(* SpecExtract: extract_loop_parameters (lines 411-438) run again and      *)
(* again on a fit table.  An array is [shape, flat] as above; a fit record *)
(* is named by an id.  compound_to_scalar (io.io_utils) and                *)
(* calc_switching_coef_vec (utils.be_loop) are functions of other modules: *)
(* the first turns a column of records into a matrix with one column per   *)
(* field, the second computes one switching record from each row and the   *)
(* threshold.  gc holds the fit table, the parameter table and the result  *)
(* of the run before.                                                      *)
(***************************************************************************)
FitRecordIds == {"rec_a", "rec_b"}
\* nuc_threshold: the default 0.03 (line 412) and another value, in hundredths
NucThresholds == {3, 5}
FitTables ==
    UNION {{[shape |-> <<p, c>>, flat |-> f] : f \in [1..(p * c) -> FitRecordIds]} :
              p \in 1..MaxPixels, c \in 1..MaxForcs}
NoParameters == [created |-> FALSE, nuc_threshold |-> 0, table |-> NoArray]

\* field f of the fit record with the id
FieldOf(id, f) == [rec |-> id, field |-> field_names[f]]

\* compound_to_scalar of an [N, 1] array of loop_fit32 records: an [N, 10] real array
CompoundToScalar(a) ==
    LET nf == Len(field_names)
    IN  [shape |-> <<a.shape[1], nf>>,
         flat |-> [k \in 1..(a.shape[1] * nf) |->
                      FieldOf(a.flat[((k - 1) \div nf) + 1], ((k - 1) % nf) + 1)]]

\* calc_switching_coef_vec(loop_coef_vec, nuc_threshold): one switching32 record for
\* each row of loop_coef_vec
CalcSwitchingCoefVec(loop_coef_vec, nuc_threshold) ==
    LET n == loop_coef_vec.shape[1]
        nf == loop_coef_vec.shape[2]
    IN  [shape |-> <<n>>,
         flat |-> [i \in 1..n |->
                      [src |-> "switching", nuc_threshold |-> nuc_threshold,
                       coef |-> [f \in 1..nf |-> loop_coef_vec.flat[(i - 1) * nf + f]]]]]

\* a mutant of ExtractedParameters: the switching records laid out column by column
ExtractedParametersByColumns(h5_loop_fit, nuc_threshold) ==
    LET n == SeqProduct(h5_loop_fit.shape)
        vec == CalcSwitchingCoefVec(CompoundToScalar(NpReshape(h5_loop_fit, <<n, 1>>)),
                                    nuc_threshold)
    IN  NpTranspose(NpReshape(vec, Reverse(h5_loop_fit.shape)), <<1, 0>>)

\* lines 433-436: the value assigned to h5_loop_parameters[:, :]
ExtractedParameters(h5_loop_fit, nuc_threshold) ==
    LET n == SeqProduct(h5_loop_fit.shape)
        loop_coef_vec == CompoundToScalar(NpReshape(h5_loop_fit, <<n, 1>>))
        switching_coef_vec == CalcSwitchingCoefVec(loop_coef_vec, nuc_threshold)
    IN  NpReshape(switching_coef_vec, h5_loop_fit.shape)

InitExtract ==
    /\ dataset \in {[labels |-> <<"DC_Offset">>, dims |-> <<NumDcSteps>>, num_pixels |-> 1]}
    /\ ObjInit
    /\ pc = "idle"
    /\ outcome = "none"
    /\ call = NoCall
    /\ rs = RsIdle
    /\ gc \in {[phase |-> "fitted", h5_loop_fit |-> t, fit_before |-> t,
                 h5_loop_parameters |-> NoParameters, previous |-> NoParameters] :
                   t \in FitTables}

\* extract_loop_parameters(h5_loop_fit, nuc_threshold): the dataset of the parameters
\* is made (or found again under its name) and assigned as a whole
ExtractLoopParameters(nuc_threshold) ==
    /\ gc.phase \in {"fitted", "extracted"}
    /\ gc' = [gc EXCEPT !.phase = "extracted",
                        !.previous = gc.h5_loop_parameters,
                        !.h5_loop_parameters =
                            [created |-> TRUE, nuc_threshold |-> nuc_threshold,
                             table |-> ExtractedParameters(gc.h5_loop_fit, nuc_threshold)]]
    /\ UNCHANGED <<drivervars, rs>>

NextExtract == \E nuc \in NucThresholds : ExtractLoopParameters(nuc)

SpecExtract == InitExtract /\ [][NextExtract]_vars

RngStates == {0, 1}
\* the numbers of loops of the chunk (two clusters each)
TwiceLoops == 2..(MaxPixels + 1)
NoRun == [done |-> FALSE, seed |-> 0 - 1, guess_parms |-> <<>>]

\* the state of the generator after the draws of one KMeans fit
AdvanceRng(rng) == (rng + 1) % Cardinality(RngStates)

\* a mutant of KMeansLabels: the draws go on from the run before, whatever the
\* generator has been set to
KMeansLabelsOfStream(labels_by_state, rng) ==
    IF gc.last.done THEN labels_by_state[AdvanceRng(gc.last.seed)] ELSE labels_by_state[rng]

\* results.labels_ (lines 1017-1020): the labels KMeans gives from this state of the
\* generator
KMeansLabels(labels_by_state, rng) == labels_by_state[rng]

\* _loop_fit_tree (lines 983-1014) on the node name: the node is fitted from its row
\* of guess_mat, then every child is seeded and fitted in turn.  st is
\* [guess_mat, fit_results]; converges[name + 1] tells whether fit_loop converges
RECURSIVE LoopFitTree(_, _, _, _, _)
RECURSIVE LoopFitChildren(_, _, _, _, _, _, _)
LoopFitChildren(name, curr_fit_results, j, st, linkage, k, converges) ==
    LET children == ChildrenOf(linkage, k, name)
    IN  IF j > Len(children) THEN st
        ELSE LET child == children[j]
                 seeded == [st EXCEPT !.guess_mat[child + 1] =
                                         ChildSeed(curr_fit_results, st.guess_mat, name)]
             IN  LoopFitChildren(name, curr_fit_results, j + 1,
                                 LoopFitTree(child, seeded, linkage, k, converges),
                                 linkage, k, converges)
LoopFitTree(name, st, linkage, k, converges) ==
    LET curr_fit_results == FitLoop(name, st.guess_mat[name + 1], converges[name + 1])
    IN  LoopFitChildren(name, curr_fit_results, 1,
                        [st EXCEPT !.fit_results[name + 1] = curr_fit_results],
                        linkage, k, converges)

\* _guess_loops as a function of the labels, the linkage and the convergence of the
\* fits (lines 1016-1058): guess_parms
GuessLoops(labels, linkage, converges) ==
    LET n == Len(labels)
        k == NumClusters(n)
        zeros == [i \in 1..NumNodes(k) |-> Zeros]
        st0 == [guess_mat |-> [zeros EXCEPT ![LastRow(zeros)] =
                                                Float32(GenerateGuess(RootOf(k)))],
                fit_results |-> [i \in 1..NumNodes(k) |-> Placeholder(i - 1)]]
        st == LoopFitTree(RootOf(k), st0, linkage, k, converges)
    IN  AssignClusters([guess_parms |-> [i \in 1..n |-> ZeroRecord],
                        assigned |-> [i \in 1..n |-> 0]],
                       labels, st.fit_results, 0, k).guess_parms

InitTwice ==
    /\ dataset = [labels |-> <<"DC_Offset">>, dims |-> <<NumDcSteps>>, num_pixels |-> 1]
    /\ ObjInit
    /\ pc = "idle"
    /\ outcome = "none"
    /\ call = NoCall
    /\ rs = RsIdle
    /\ \E n \in TwiceLoops :
          \E lbs \in [RngStates -> LabelVectors(n, NumClusters(n))],
             lks \in [RngStates -> Linkages(NumClusters(n))],
             cvs \in [RngStates -> [1..NumNodes(NumClusters(n)) -> BOOLEAN]],
             r \in RngStates :
              gc = [phase |-> "twice", rng |-> r, labels_by_state |-> lbs,
                    linkage_by_state |-> lks, converges_by_state |-> cvs,
                    previous |-> NoRun, last |-> NoRun]

\* np.random.seed(seed) by the caller, between two runs
SetSeed(seed) ==
    /\ gc.phase = "twice"
    /\ gc.rng # seed
    /\ gc' = [gc EXCEPT !.rng = seed]
    /\ UNCHANGED <<drivervars, rs>>

\* one run of _guess_loops(vdc_vec, projected_loops_2d)
GuessLoopsRun ==
    /\ gc.phase = "twice"
    /\ LET labels == KMeansLabels(gc.labels_by_state, gc.rng)
           guess_parms == GuessLoops(labels, gc.linkage_by_state[gc.rng],
                                     gc.converges_by_state[gc.rng])
       IN  gc' = [gc EXCEPT !.rng = AdvanceRng(gc.rng),
                            !.previous = gc.last,
                            !.last = [done |-> TRUE, seed |-> gc.rng,
                                      guess_parms |-> guess_parms]]
    /\ UNCHANGED <<drivervars, rs>>

NextTwice ==
    \/ \E seed \in RngStates : SetSeed(seed)
    \/ GuessLoopsRun

SpecTwice == InitTwice /\ [][NextTwice]_vars

MaxSteps == 5
ShiftTables ==
    LET Table(labels, dims, q) ==
            [labels |-> [i \in 1..Len(labels) |-> labels[q[i]]],
             dims |-> [i \in 1..Len(labels) |-> dims[q[i]]]]
    IN  {[labels |-> <<"DC_Offset">>, dims |-> <<n>>] : n \in 1..MaxSteps}
        \cup {Table(<<"DC_Offset", "Field">>, <<n, NumFields>>, q) :
                 n \in 1..MaxSteps, q \in RowOrders(2)}
        \cup {Table(<<"DC_Offset", "Field", "FORC">>, <<n, NumFields, MaxForcs>>, q) :
                 n \in 1..MaxSteps, q \in RowOrders(3)}

\* int(num / den) of Python: the quotient cut towards zero (den > 0)
TruncToInt(num, den) == IF num >= 0 THEN num \div den ELSE 0 - ((0 - num) \div den)

\* np.roll(a, shift) of a 1-D array: the last shift elements come first
NpRoll(a, shift) ==
    LET n == Len(a)
        s == IF n = 0 THEN 0 ELSE shift % n
    IN  SubSeq(a, n - s + 1, n) \o SubSeq(a, 1, n - s)

\* np.roll(a, shift, axis=0) of a 2-D array: the rows are rolled
NpRollAxis0(a, shift) ==
    LET c == a.shape[2]
        rows == NpRoll([i \in 1..a.shape[1] |-> i], shift)
    IN  [shape |-> a.shape,
         flat |-> [k \in 1..Len(a.flat) |->
                      a.flat[(rows[((k - 1) \div c) + 1] - 1) * c + ((k - 1) % c) + 1]]]

\* shift_vdc(vdc_vec) (lines 1078-1080)
ShiftVdc(vdc_vec) ==
    LET shift_ind == TruncToInt((0 - 1) * Len(vdc_vec), 4)
    IN  [shift_ind |-> shift_ind, vdc_shifted |-> NpRoll(vdc_vec, shift_ind)]

\* self.dc_vec of the chunk: one value per bias step, named by the step
BiasVector(ds) == [j \in 1..ds.dims[DcSpecIndex(ds) + 1] |-> j - 1]

\* the chunk as loops (lines 239-245, 357-364): np.transpose(self.data) when one row
\* is retained, else _reshape_sho_matrix
LoopsOfChunk(raw, ds, sort) ==
    IF Len(RetainedRows(ds)) = 1
    THEN [raised |-> FALSE, loops_2d |-> NpTranspose(raw, <<1, 0>>)]
    ELSE LET r == ReshapeShoMatrix(raw, RetainedCard(ds), sort, DcOffsetIndex(ds))
         IN  [raised |-> r.raised, loops_2d |-> r.loops_2d]

InitShift ==
    /\ dataset \in {[labels |-> t.labels, dims |-> t.dims, num_pixels |-> n] :
                       t \in ShiftTables, n \in 1..MaxPixels}
    /\ ObjInit
    /\ pc = "idle"
    /\ outcome = "none"
    /\ call = NoCall
    /\ gc = GcIdle
    /\ \E sort \in RowOrders(Len(RetainedRows(dataset))) :
          rs = [phase |-> "chunk", sort |-> sort, raw |-> RawChunk(dataset),
                vdc_vec |-> BiasVector(dataset), shift_ind |-> 0, vdc_shifted |-> <<>>,
                response |-> NoArray]

\* do_fit, lines 357-371: the loops of the chunk, shift_vdc, and the loops rolled
\* along axis 0 and transposed to [loop, axis 0]
FitShift ==
    /\ rs.phase = "chunk"
    /\ LET l == LoopsOfChunk(rs.raw, dataset, rs.sort)
           sh == ShiftVdc(rs.vdc_vec)
       IN  IF l.raised
           THEN rs' = [rs EXCEPT !.phase = "raised"]
           ELSE rs' = [rs EXCEPT !.phase = "fit",
                                 !.shift_ind = sh.shift_ind,
                                 !.vdc_shifted = sh.vdc_shifted,
                                 !.response = NpTranspose(NpRollAxis0(l.loops_2d, sh.shift_ind),
                                                          <<1, 0>>)]
    /\ UNCHANGED <<drivervars, gc>>

\* do_guess and _guess_loops, lines 239-252, 1041 and 1006: the loops of the chunk,
\* shift_vdc, and the value of a tree node rolled; the value of a node is a loop
\* [axis 0 of loops_2d], named here by the first loop of the chunk
GuessShift ==
    /\ rs.phase = "chunk"
    /\ LET l == LoopsOfChunk(rs.raw, dataset, rs.sort)
           sh == ShiftVdc(rs.vdc_vec)
           loops == NpTranspose(l.loops_2d, <<1, 0>>)
           value == [c \in 1..loops.shape[2] |-> loops.flat[c]]
       IN  IF l.raised
           THEN rs' = [rs EXCEPT !.phase = "raised"]
           ELSE rs' = [rs EXCEPT !.phase = "guess",
                                 !.shift_ind = sh.shift_ind,
                                 !.vdc_shifted = sh.vdc_shifted,
                                 !.response = [shape |-> <<1, Len(value)>>,
                                               flat |-> NpRoll(value, sh.shift_ind)]]
    /\ UNCHANGED <<drivervars, gc>>

NextShift == FitShift \/ GuessShift

SpecShift == InitShift /\ [][NextShift]_vars

\* the bias step at which the element of the chunk with the name k was measured: its
\* column counts the retained rows from the fastest changing to the slowest
BiasStepOf(k, ds, sort) ==
    LET cols == SeqProduct(RetainedCard(ds))
        slow_first == Reverse(sort)
        card == [i \in 1..Len(slow_first) |-> RetainedCard(ds)[slow_first[i]]]
        dc_row == PlaceOf(RetainedRows(ds), DcSpecIndex(ds))
    IN  Unravel((k - 1) % cols, card)[PlaceOf(slow_first, dc_row)]

\* C22: shift_ind is -(len div 4) and vdc_shifted[i] = vdc[(i - shift_ind) mod n], the
\* vector itself when len < 4; in the guess phase and in the fit phase the rolled
\* response has one value per bias step, and the value at index i was measured at
\* the bias step of vdc_shifted[i].
C22_ShiftKeepsPairs ==
    rs.phase \in {"fit", "guess"} =>
        LET n == Len(rs.vdc_vec)
        IN  /\ rs.shift_ind = 0 - (n \div 4)
            /\ Len(rs.vdc_shifted) = n
            /\ \A i \in 0..(n - 1) :
                  rs.vdc_shifted[i + 1] = rs.vdc_vec[((i - rs.shift_ind) % n) + 1]
            /\ n < 4 => rs.vdc_shifted = rs.vdc_vec
            /\ rs.response.shape[2] = n
            /\ \A m \in 0..(rs.response.shape[1] - 1), i \in 0..(n - 1) :
                  BiasStepOf(rs.response.flat[m * n + i + 1], dataset, rs.sort) =
                      rs.vdc_shifted[i + 1]

\* the outer cycles of which the call has read a chunk
CyclesRead(log) ==
    {f \in 0..(num_forcs - 1) :
        \E i \in 1..Len(log) : /\ log[i].ev = "read"
                                /\ log[i].forc_cols = f * inds_per_forc.sho}

\* C23: in every do_guess on a dataset with max_pos >= 1, whatever was called on the
\* object before, the first chunk read starts at position 0 of outer cycle 0, and
\* when the call has returned a chunk of every outer cycle has been read.
C23_GuessStartsAfresh ==
    (call.name = "do_guess" /\ max_pos >= 1) =>
        /\ pc = "guess_loop" =>
              /\ call.log # <<>>
              /\ call.log[1].ev = "read"
              /\ call.log[1].r0 = 0
              /\ call.log[1].forc_cols = 0
        /\ (pc = "returned" /\ outcome = "guess_done") =>
              CyclesRead(call.log) = 0..(num_forcs - 1)

\* the column slices of the blocks written to a table
SlicesWritten(t) == {<<t.writes[i].c0, t.writes[i].c1>> : i \in 1..Len(t.writes)}
\* column c lies in exactly one of the slices written to the table
ColumnInOneSlice(t, c) ==
    Cardinality({sl \in SlicesWritten(t) : sl[1] <= c /\ c < sl[2]}) = 1

\* C24: when a do_guess that started at position 0 of outer cycle 0, with max_pos >= 1,
\* has returned, every column of the raw table lies in exactly one of the column
\* slices of the chunks written to Projected_Loops, and every column of the metrics
\* table in exactly one of those written to Loop_Metrics, whatever the counts of
\* outer cycles and of repeats.
C24_SlicesCoverAllColumns ==
    (/\ pc = "returned" /\ outcome = "guess_done" /\ call.name = "do_guess"
     /\ max_pos >= 1
     /\ call.log # <<>> /\ call.log[1].r0 = 0 /\ call.log[1].forc_cols = 0) =>
        /\ \A c \in 0..(ShoColumns(dataset) - 1) : ColumnInOneSlice(h5_projected_loops, c)
        /\ \A c \in 0..(MetColumns(dataset) - 1) : ColumnInOneSlice(h5_loop_metrics, c)

\* the do_fit that has returned was asked for a solver or an objective function (or
\* both) that is not known
UnknownSolverOrObjective == outcome \in {"fit_none", "fit_unfitted"}

\* C25: a do_fit asked for an unknown solver, an unknown objective function, or both,
\* returns None, has fitted no chunk, and has not run extract_loop_parameters on the
\* fit table.
C25_UnknownSolverReturnsNone ==
    (pc = "returned" /\ call.name = "do_fit" /\ UnknownSolverOrObjective) =>
        /\ outcome = "fit_none"
        /\ call.results = <<>>
        /\ "Fit" \notin h5_parameters

(***************************************************************************)
(* SpecLive: Spec with the chunk loops of do_guess and do_fit kept         *)
(* running: a call that is in its while loop (lines 231-273, 382-393)      *)
(* takes its next pass, raises or leaves the loop.  When the caller makes  *)
(* the next call is left open.                                             *)
(***************************************************************************)
LoopStep ==
    \/ GuessChunkStep
    \/ GuessChunkRaises
    \/ DoGuessReturn
    \/ FitChunkStep
    \/ DoFitFinish

SpecLive == Init /\ [][Next]_vars /\ WF_vars(LoopStep)

InChunkLoop == pc \in {"guess_loop", "fit_loop"}
\* the chunks the running call has processed: written to Guess, or fitted
ChunksProcessed ==
    Cardinality({i \in 1..Len(call.log) :
                    \/ call.log[i].ev = "write" /\ call.log[i].table = "Guess"
                    \/ call.log[i].ev = "fitted"})
\* ceil(a / b) for b > 0
CeilDiv(a, b) == (a + b - 1) \div b
\* (number of outer cycles) x ceil(num_pixels / max(1, max_pos))
ChunkBound == num_forcs * CeilDiv(dataset.num_pixels, Max(1, max_pos))

====
